---- MODULE Spec2Model ----
(***************************************************************************)
(* Model of the whisper-scribe streaming voice pipeline.                   *)
(*                                                                         *)
(* Part 1: PerUserVoiceSegmenter (js/src/voiceReceiver.ts) with the audio  *)
(* helpers it calls (audioUtils: downmixToMono, resampleLinear, rmsDbFs).  *)
(*                                                                         *)
(* Conventions.  A sample is a pair <<v, n>>: v is the Int16 value the     *)
(* code stores, n is a history tag (the sample's 0-based position in the   *)
(* participant's pushed 16 kHz stream) that the code does not have; no     *)
(* operator that models code reads n.  Wall-clock time is in integer       *)
(* milliseconds (Date.now()); nowEpoch() is Date.now()/1000, so every      *)
(* comparison of seconds in the code is written here multiplied out.       *)
(* flushAll is async: it runs without interruption up to its await of the  *)
(* second-stage VAD (line 129) and is resumed by the VAD's answer, so the  *)
(* model runs it in atomic stretches between those two points.             *)
(***************************************************************************)
EXTENDS Integers, Sequences, FiniteSets, TLC

TARGET_SR == 16000

\* ---- bounds of the exploration ------------------------------------------
MaxPush == 5
MaxTicks == 1

Participants == {"a", "b"}

\* pushes each participant may make, out of MaxPush in total, and the
\* buffers each may push (the second participant speaks without pauses)
PushQuota == [a |-> MaxPush, b |-> 2]

PushKindsOf == [a |-> {"loud", "quiet"}, b |-> {"loud"}]

\* ---- SegmenterOptions given to the constructor ---------------------------
opts ==
    [ vadFrameMs |-> 1, vadDbThreshold |-> -45, silenceGapMs |-> 2,
      minSegmentMs |-> 3, maxSegmentMs |-> 4 ]

\* ---- arithmetic helpers --------------------------------------------------
Max(a, b) == IF a >= b THEN a ELSE b
Min(a, b) == IF a <= b THEN a ELSE b

\* Math.round(num/den) for num >= 0, den > 0
Round(num, den) == (2 * num + den) \div (2 * den)

\* truncation toward zero of num/den (den > 0): the Int16Array store and `| 0`
Trunc(num, den) == IF num >= 0 THEN num \div den ELSE -((-num) \div den)

RECURSIVE Flatten(_)
Flatten(bufs) == IF bufs = <<>> THEN <<>> ELSE Head(bufs) \o Flatten(Tail(bufs))

RECURSIVE SumSq(_)
SumSq(frame) ==
    IF frame = <<>> THEN 0 ELSE Head(frame)[1] * Head(frame)[1] + SumSq(Tail(frame))

\* ---- audioUtils ----------------------------------------------------------
downmixToMono(int16, channels) ==
    IF channels = 1 THEN int16
    ELSE [ j \in 1..(Len(int16) \div 2) |->
             LET v2 == int16[2 * j - 1] + int16[2 * j]
             IN  IF v2 < -65536 THEN -32768
                 ELSE IF v2 > 65534 THEN 32767
                 ELSE Trunc(v2, 2) ]

resampleLinear(int16, fromRate, toRate) ==
    IF fromRate = toRate THEN int16
    ELSE LET newLength == Max(1, Round(Len(int16) * toRate, fromRate))
         IN  [ k \in 1..newLength |->
                 IF Len(int16) = 0 THEN 0
                 ELSE LET p  == (k - 1) * fromRate
                          i0 == p \div toRate
                          i1 == Min(Len(int16) - 1, i0 + 1)
                          r  == p % toRate
                      IN  Trunc(int16[i0 + 1] * (toRate - r) + int16[i1 + 1] * r,
                                toRate) ]

\* 32768^2 * 10^(db/10), rounded up: the mean square of a frame whose
\* rmsDbFs is exactly db
MeanSquareAtDb(db) ==
    CASE db = -45 -> 33955
      [] db = -30 -> 1073742
      [] OTHER    -> 0

\* rmsDbFs(frame) >= thresh, with the logarithm and the square root removed
\* from both sides (both are increasing)
EnergyActive(frame, thresh) ==
    /\ Len(frame) > 0
    /\ SumSq(frame) >= MeanSquareAtDb(thresh) * Len(frame)

\* ---- _getSegParams -------------------------------------------------------
_getSegParams ==
    [ vadFrameSamples |-> Max(1, Round(TARGET_SR * opts.vadFrameMs, 1000)),
      thresh          |-> opts.vadDbThreshold,
      silenceGapMs    |-> opts.silenceGapMs,
      minSegmentMs    |-> opts.minSegmentMs,
      maxSegmentMs    |-> opts.maxSegmentMs ]

F == _getSegParams.vadFrameSamples

\* ---- capture input -------------------------------------------------------
\* Interleaved stereo 48 kHz buffers the decoder hands to pushStereo48:
\* a loud buffer of one and a half VAD frames (left 300, right 100) and a
\* silent buffer of one VAD frame.  A frame that is half loud, half silent
\* lies below the energy threshold of -45 dBFS, a loud frame above it.
\* A pause is a silent buffer of PauseFrames VAD frames.
PushKinds == {"loud", "quiet", "pause"}

PauseFrames == opts.maxSegmentMs + opts.silenceGapMs

StereoBuf(kind) ==
    LET n == IF kind = "loud" THEN 9 * F
             ELSE IF kind = "pause" THEN 6 * F * PauseFrames
             ELSE 6 * F
    IN  [ i \in 1..n |->
            IF kind \in {"quiet", "pause"} THEN 0
            ELSE IF i % 2 = 1 THEN 300 ELSE 100 ]

\* The two conversions of pushStereo48 (lines 79-80), tabulated over the inputs.
Mono48 == [ kind \in PushKinds |-> downmixToMono(StereoBuf(kind), 2) ]

MonoTgt == [ kind \in PushKinds |-> resampleLinear(Mono48[kind], 48000, TARGET_SR) ]

VARIABLES
    users,      \* Map userId -> UserBuf (PerUserVoiceSegmenter.users)
    order,      \* insertion order of the Map's keys (its iteration order)
    _flushing,  \* reentrancy flag
    pc,         \* "idle": no flushAll in progress; "vad": suspended at line 129
    fl,         \* locals of the suspended flushAll: user index, work, offset, processed
    sent,       \* segments handed to opts.send, in emission order
    gate,       \* history: per participant, the frames handed to the VAD gate
    pushed,     \* history: per participant, number of 16 kHz samples pushed
    npush,      \* history: per participant, number of pushStereo48 calls
    now,        \* Date.now()
    activeDecoders, \* attachVoiceReceiver's Map userId -> decoder (an index of decoders)
    decoders    \* every decoder the capture receiver has created, in creation order

dvars == <<activeDecoders, decoders>>

vars == <<users, order, _flushing, pc, fl, sent, gate, pushed, npush, now, dvars>>

Known == { order[i] : i \in 1..Len(order) }

NoFlush == [ i |-> 0, work |-> <<>>, offset |-> 0, processed |-> FALSE ]

NewUserBuf ==
    [ frames |-> <<>>, totalInSeg |-> 0, nextIndex |-> 0, startedTs |-> 0,
      inSpeech |-> FALSE, lastActiveSamples |-> 0, silenceSamples |-> 0,
      pendingSilence |-> <<>>, pendingSilenceSamples |-> 0,
      carry |-> <<>>, inQueue |-> <<>>, vad |-> FALSE ]

\* ---- state of the session coordinator and of its transport -----------------
\* (Session, PythonWsClient, UserDirectory, the session's log stream)
VARIABLES
    conns,        \* every WebSocket the client has created, in creation order
    ws,           \* PythonWsClient.ws: index into conns, 0 while undefined
    shouldRun,    \* PythonWsClient.shouldRun
    timers,       \* pending setTimeout callbacks of the close handler
    started,      \* Session.start() has been called
    stopped,      \* Session.stop() has been called
    logStream,    \* state of the fs.WriteStream: "open", "ending", "destroyed"
    logFile,      \* the records appended to log.jsonl, in file order
    contextWords, \* Session.contextWords
    displayNames, \* UserDirectory cache of the session's guild: userId -> name
    lookups,      \* participants with a directory lookup in flight
    proc,         \* the process: "running", "uncaught" (exception), "exit" (exit(1))
    nseg,         \* per participant, number of segments handed to the coordinator
    wire,         \* history: messages written to a socket, in order
    offered,      \* history: every message passed to send, with the socket's state
    arrivals      \* history: every inbound message handled by the client

svars == <<conns, ws, shouldRun, timers, started, stopped, logStream, logFile,
           contextWords, displayNames, lookups, proc, nseg, wire, offered, arrivals>>

\* the state after `new Session(sessionInfo)`
SessionInit ==
    /\ conns = <<>>
    /\ ws = 0
    /\ shouldRun = TRUE
    /\ timers = <<>>
    /\ started = FALSE
    /\ stopped = FALSE
    /\ logStream = "open"
    /\ logFile = <<>>
    /\ contextWords = <<>>
    /\ displayNames = [ u \in {} |-> "" ]
    /\ lookups = {}
    /\ proc = "running"
    /\ nseg = [ u \in Participants |-> 0 ]
    /\ wire = <<>>
    /\ offered = <<>>
    /\ arrivals = <<>>

\* ---- state of the handlers of chat messages ----------------------------------
\* (Session.logTextMessage, the log reader, the bot's MessageCreate listener)
VARIABLES
    received,     \* history: the messages handed to logTextMessage, in order
    awaiting,     \* calls of logTextMessage suspended in ensureDisplayName
    commits,      \* history: the calls that went on to write, in order
    fed,          \* history: the words of every text and transcription handled
    disk,         \* the file at logFilePath: [exists, text]
    readResult,   \* the file the last read of the log saw and what it returned
    allowedCommanders, \* cfg.allowedCommanders
    replies,      \* history: the replies the bot sent to commands, in order
    pendingWrapups \* Session.pendingWrapups: the wrap-up requests in progress

tvars == <<received, awaiting, commits>>

rvars == <<disk, readResult>>

bvars == <<allowedCommanders, replies, pendingWrapups>>

\* everything the transport's listeners leave alone but fed
yvars == <<tvars, rvars, bvars>>

xvars == <<yvars, fed>>

\* no file at logFilePath
NoFile == [ exists |-> FALSE, text |-> <<>> ]

\* readResult is [file, value]: the file read and what the read returned
NotRead ==
    [ file |-> NoFile,
      value |-> [ done |-> FALSE, ok |-> FALSE, line |-> 0, out |-> <<>> ] ]

TextInit ==
    /\ received = <<>>
    /\ awaiting = {}
    /\ commits = <<>>
    /\ fed = <<>>
    /\ readResult = NotRead
    /\ replies = <<>>
    /\ pendingWrapups = {}

\* the program's state apart from the file at logFilePath
Constructed ==
    /\ users = [ u \in {} |-> NewUserBuf ]
    /\ order = <<>>
    /\ _flushing = FALSE
    /\ pc = "idle"
    /\ fl = NoFlush
    /\ sent = <<>>
    /\ gate = [ u \in Participants |-> <<>> ]
    /\ pushed = [ u \in Participants |-> 0 ]
    /\ npush = [ u \in Participants |-> 0 ]
    /\ now = 1
    /\ activeDecoders = <<>>
    /\ decoders = <<>>
    /\ SessionInit
    /\ TextInit

Init == Constructed /\ disk = NoFile /\ allowedCommanders = <<>>

\* ---- pushStereo48 --------------------------------------------------------
\* pcmStereo48 names the captured buffer StereoBuf(pcmStereo48)
\* variant: the buffer is queued for every participant
pushStereo48_everyone(userId, pcmStereo48) ==
    LET monoTgt == MonoTgt[pcmStereo48]
        tagged  == [ k \in 1..Len(monoTgt) |-> <<monoTgt[k], pushed[userId] + k - 1>> ]
        known   == userId \in Known
    IN  /\ users' = [ u \in Known \cup {userId} |->
                        LET state == IF u \in Known THEN users[u] ELSE NewUserBuf
                        IN  [ state EXCEPT !.inQueue = Append(@, tagged) ] ]
        /\ order' = IF known THEN order ELSE Append(order, userId)
        /\ pushed' = [ pushed EXCEPT ![userId] = @ + Len(monoTgt) ]
        /\ npush' = [ npush EXCEPT ![userId] = @ + 1 ]
        /\ UNCHANGED <<_flushing, pc, fl, sent, gate, now, dvars>>

pushStereo48(userId, pcmStereo48) ==
    LET monoTgt == MonoTgt[pcmStereo48]
        tagged  == [ k \in 1..Len(monoTgt) |-> <<monoTgt[k], pushed[userId] + k - 1>> ]
        known   == userId \in Known
        state   == IF known THEN users[userId] ELSE NewUserBuf
    IN  /\ users' = [ u \in Known \cup {userId} |->
                        IF u = userId
                        THEN [ state EXCEPT !.inQueue = Append(@, tagged) ]
                        ELSE users[u] ]
        /\ order' = IF known THEN order ELSE Append(order, userId)
        /\ pushed' = [ pushed EXCEPT ![userId] = @ + Len(monoTgt) ]
        /\ npush' = [ npush EXCEPT ![userId] = @ + 1 ]
        /\ UNCHANGED <<_flushing, pc, fl, sent, gate, now, dvars>>

Push ==
    \E u \in Participants, kind \in PushKinds :
        /\ kind \in PushKindsOf[u]
        /\ npush["a"] + npush["b"] < MaxPush
        /\ npush[u] < PushQuota[u]
        /\ pushStereo48(u, kind)
        /\ UNCHANGED <<svars, xvars>>

\* a participant's decoder hands over a long silent buffer
PushPause ==
    \E u \in {"a"} :
        /\ npush["a"] + npush["b"] < MaxPush
        /\ npush[u] < PushQuota[u]
        /\ pushStereo48(u, "pause")
        /\ UNCHANGED <<svars, xvars>>

\* the first participant's decoder hands over a buffer, nobody else speaking
Speak ==
    \E kind \in PushKindsOf["a"] :
        /\ npush["a"] + npush["b"] < MaxPush
        /\ npush["a"] < PushQuota["a"]
        /\ pushStereo48("a", kind)
        /\ UNCHANGED <<svars, xvars>>

\* ---- the segmenter's state as one value, for the synchronous stretches ----
Machine ==
    [ users |-> users, sent |-> sent, gate |-> gate,
      flushing |-> _flushing, pc |-> pc, fl |-> fl ]

Install(m) ==
    /\ users' = m.users
    /\ sent' = m.sent
    /\ gate' = m.gate
    /\ _flushing' = m.flushing
    /\ pc' = m.pc
    /\ fl' = m.fl

FrameLen(frames) == Len(Flatten(frames))

\* ---- _buildWorkBuffer ----------------------------------------------------
\* variant: the carry of the previous pass is forgotten
_buildWorkBuffer_noCarry(state) == Flatten(state.inQueue)

\* the returned buffer; <<>> stands for null (totalLen === 0)
_buildWorkBuffer(state) == state.carry \o Flatten(state.inQueue)

\* its effect on the state: queue and carry cleared
_buildWorkBufferState(state) == [ state EXCEPT !.inQueue = <<>>, !.carry = <<>> ]

\* ---- _startSegment, _appendActiveFrame, _resetSpeechState ----------------
_startSegment(state) ==
    [ state EXCEPT !.inSpeech = TRUE, !.startedTs = now, !.frames = <<>>,
                   !.totalInSeg = 0, !.lastActiveSamples = 0,
                   !.silenceSamples = 0, !.pendingSilence = <<>>,
                   !.pendingSilenceSamples = 0 ]

_appendActiveFrame(state, frame) ==
    LET total == state.totalInSeg + Len(frame)
    IN  [ state EXCEPT !.frames = Append(@, frame), !.totalInSeg = total,
                       !.lastActiveSamples = total, !.silenceSamples = 0 ]

\* variant: the reset also restarts the index counter
_resetSpeechState_index(state) ==
    [ state EXCEPT !.frames = <<>>, !.totalInSeg = 0, !.inSpeech = FALSE,
                   !.startedTs = 0, !.lastActiveSamples = 0,
                   !.silenceSamples = 0, !.pendingSilence = <<>>,
                   !.pendingSilenceSamples = 0, !.nextIndex = 0 ]

_resetSpeechState(state) ==
    [ state EXCEPT !.frames = <<>>, !.totalInSeg = 0, !.inSpeech = FALSE,
                   !.startedTs = 0, !.lastActiveSamples = 0,
                   !.silenceSamples = 0, !.pendingSilence = <<>>,
                   !.pendingSilenceSamples = 0 ]

\* ---- concatInt16Trimmed --------------------------------------------------
RECURSIVE concatInt16Trimmed(_, _)
concatInt16Trimmed(chunks, keepSamples) ==
    IF chunks = <<>> \/ keepSamples <= 0 THEN <<>>
    ELSE LET c == Head(chunks)
         IN  IF Len(c) <= keepSamples
             THEN c \o concatInt16Trimmed(Tail(chunks), keepSamples - Len(c))
             ELSE SubSeq(c, 1, keepSamples)

\* variant of _finalizeSegment (defined below): no trim, the pending silence
\* is emitted with the segment
_finalizeSegment_untrimmed(m, userId) ==
    LET state == m.users[userId]
        keepSamples == state.totalInSeg + state.pendingSilenceSamples
    IN  IF ~state.inSpeech \/ state.startedTs = 0 \/ state.totalInSeg <= 0
        THEN [ m EXCEPT !.users[userId] = _resetSpeechState(state) ]
        ELSE LET segment ==
                   [ userId     |-> userId,
                     index      |-> state.nextIndex,
                     startedTs  |-> state.startedTs,
                     captureTs  |-> state.startedTs + (keepSamples * 1000) \div TARGET_SR,
                     durationMs |-> Round(keepSamples * 1000, TARGET_SR),
                     pcm16      |-> concatInt16Trimmed(state.frames \o state.pendingSilence,
                                                       keepSamples),
                     sil        |-> state.silenceSamples,
                     processed  |-> m.fl.processed ]
             IN  [ m EXCEPT !.users[userId] =
                               _resetSpeechState([ state EXCEPT !.nextIndex = @ + 1 ]),
                            !.sent = Append(@, segment) ]

\* ---- _finalizeSegment ----------------------------------------------------
\* sil and processed are history fields of the emitted record: the silence
\* counter when the segment was finalized, and whether that pass processed frames
_finalizeSegment(m, userId) ==
    LET state == m.users[userId]
        keepSamples == Max(0, Min(state.lastActiveSamples, state.totalInSeg))
    IN  IF ~state.inSpeech \/ state.startedTs = 0 \/ state.totalInSeg <= 0
        THEN [ m EXCEPT !.users[userId] = _resetSpeechState(state) ]
        ELSE IF keepSamples <= 0
        THEN [ m EXCEPT !.users[userId] = _resetSpeechState(state) ]
        ELSE LET segment ==
                   [ userId     |-> userId,
                     index      |-> state.nextIndex,
                     startedTs  |-> state.startedTs,
                     captureTs  |-> state.startedTs + (keepSamples * 1000) \div TARGET_SR,
                     durationMs |-> Round(keepSamples * 1000, TARGET_SR),
                     pcm16      |-> concatInt16Trimmed(state.frames, keepSamples),
                     sil        |-> state.silenceSamples,
                     processed  |-> m.fl.processed ]
             IN  [ m EXCEPT !.users[userId] =
                               _resetSpeechState([ state EXCEPT !.nextIndex = @ + 1 ]),
                            !.sent = Append(@, segment) ]

\* ---- _maybeFinalizePost --------------------------------------------------
\* silentMs >= p.silenceGapMs, both sides multiplied by TARGET_SR
\* variant: the gap must be exceeded, not reached
SilenceGapReached_strict(state, p, processed) ==
    IF processed
    THEN state.silenceSamples * 1000 > p.silenceGapMs * TARGET_SR
    ELSE Max(0, (now - state.startedTs) * TARGET_SR - state.lastActiveSamples * 1000)
             > p.silenceGapMs * TARGET_SR

\* variant: no wall-clock fallback
SilenceGapReached_noClock(state, p, processed) ==
    /\ processed
    /\ state.silenceSamples * 1000 >= p.silenceGapMs * TARGET_SR

SilenceGapReached(state, p, processed) ==
    IF processed
    THEN state.silenceSamples * 1000 >= p.silenceGapMs * TARGET_SR
    ELSE Max(0, (now - state.startedTs) * TARGET_SR - state.lastActiveSamples * 1000)
             >= p.silenceGapMs * TARGET_SR

\* variant: no minimum duration
_maybeFinalizePost_noMin(m, uid, p, processed) ==
    LET state == m.users[uid]
    IN  IF ~state.inSpeech \/ state.startedTs = 0 \/ state.totalInSeg <= 0 THEN m
        ELSE IF SilenceGapReached(state, p, processed) THEN _finalizeSegment(m, uid)
        ELSE IF state.totalInSeg * 1000 >= p.maxSegmentMs * TARGET_SR
        THEN _finalizeSegment(m, uid)
        ELSE m

\* variant: no length cap
_maybeFinalizePost_noMax(m, uid, p, processed) ==
    LET state == m.users[uid]
    IN  IF ~state.inSpeech \/ state.startedTs = 0 \/ state.totalInSeg <= 0 THEN m
        ELSE IF state.totalInSeg * 1000 < p.minSegmentMs * TARGET_SR THEN m
        ELSE IF SilenceGapReached(state, p, processed) THEN _finalizeSegment(m, uid)
        ELSE m

_maybeFinalizePost(m, uid, p, processed) ==
    LET state == m.users[uid]
    IN  IF ~state.inSpeech \/ state.startedTs = 0 \/ state.totalInSeg <= 0 THEN m
        ELSE IF state.totalInSeg * 1000 < p.minSegmentMs * TARGET_SR THEN m
        ELSE IF SilenceGapReached(state, p, processed) THEN _finalizeSegment(m, uid)
        ELSE IF state.totalInSeg * 1000 >= p.maxSegmentMs * TARGET_SR
        THEN _finalizeSegment(m, uid)
        ELSE m

\* ---- flushAll: one frame after the gate has classified it (lines 132-164) --
\* variant: speech resumes and the buffered silence is thrown away
StitchPending_discard(state) ==
    [ state EXCEPT !.pendingSilence = <<>>, !.pendingSilenceSamples = 0,
                   !.silenceSamples = 0 ]

\* variant: the stitched silence is appended but not counted
StitchPending_uncounted(state) ==
    IF state.pendingSilenceSamples # 0 /\ Len(state.pendingSilence) # 0
    THEN [ state EXCEPT !.frames = @ \o state.pendingSilence,
                        !.pendingSilence = <<>>,
                        !.pendingSilenceSamples = 0,
                        !.silenceSamples = 0 ]
    ELSE state

StitchPending(state) ==
    IF state.pendingSilenceSamples # 0 /\ Len(state.pendingSilence) # 0
    THEN LET total == state.totalInSeg + FrameLen(state.pendingSilence)
         IN  [ state EXCEPT !.frames = @ \o state.pendingSilence,
                            !.totalInSeg = total,
                            !.pendingSilence = <<>>,
                            !.pendingSilenceSamples = 0,
                            !.silenceSamples = 0,
                            !.lastActiveSamples = total ]
    ELSE state

BufferSilence(state, frame) ==
    [ state EXCEPT !.pendingSilence = Append(@, frame),
                   !.pendingSilenceSamples = @ + Len(frame),
                   !.silenceSamples = @ + Len(frame) ]

FrameStep(state, frame, active) ==
    IF ~state.inSpeech
    THEN IF active THEN _appendActiveFrame(_startSegment(state), frame) ELSE state
    ELSE IF active THEN _appendActiveFrame(StitchPending(state), frame)
    ELSE BufferSilence(state, frame)

\* history of the gate: the frame's first tag, whether its tags are
\* consecutive, its length and sum of squares, the energy test and the
\* classification
GateRecord(frame, energy, active) ==
    [ at     |-> frame[1][2],
      whole  |-> \A k \in 1..Len(frame) : frame[k][2] = frame[1][2] + k - 1,
      n      |-> Len(frame),
      level  |-> SumSq(frame),
      energy |-> energy,
      act    |-> active ]

Classified(m, uid, frame, energy, active) ==
    [ m EXCEPT !.users[uid] = FrameStep(@, frame, active),
               !.gate[uid] = Append(@, GateRecord(frame, energy, active)) ]

\* ---- flushAll: the loops (lines 109-175) ---------------------------------
RECURSIVE FrameLoop(_)
RECURSIVE UserPass(_, _)

\* lines 166-175: save the carry, decide finalization, go on to the next user
EndOfPass(m) ==
    LET uid == order[m.fl.i]
        p   == _getSegParams
        m1  == IF m.fl.work # <<>> /\ m.fl.offset < Len(m.fl.work)
               THEN [ m EXCEPT !.users[uid].carry =
                                  SubSeq(m.fl.work, m.fl.offset + 1, Len(m.fl.work)) ]
               ELSE m
        m2  == _maybeFinalizePost(m1, uid, p, m.fl.processed)
    IN  IF m.fl.i < Len(order)
        THEN UserPass(m2, m.fl.i + 1)
        ELSE [ m2 EXCEPT !.flushing = FALSE, !.pc = "idle", !.fl = NoFlush ]

\* variant: what is left of the buffer is handed to the gate as a last,
\* shorter frame
FrameLoop_tail(m) ==
    LET uid == order[m.fl.i]
        p   == _getSegParams
    IN  IF m.fl.work # <<>> /\ m.fl.offset < Len(m.fl.work)
        THEN LET end   == Min(m.fl.offset + p.vadFrameSamples, Len(m.fl.work))
                 frame == SubSeq(m.fl.work, m.fl.offset + 1, end)
                 m1 == [ m EXCEPT !.fl.offset = end, !.fl.processed = TRUE ]
             IN  IF EnergyActive(frame, p.thresh)
                 THEN [ m1 EXCEPT !.pc = "vad", !.users[uid].vad = TRUE ]
                 ELSE FrameLoop(Classified(m1, uid, frame, FALSE, FALSE))
        ELSE EndOfPass(m)

\* variant: the VAD is consulted for every frame
FrameLoop_everyFrame(m) ==
    LET uid == order[m.fl.i]
        p   == _getSegParams
    IN  IF m.fl.work # <<>> /\ m.fl.offset + p.vadFrameSamples <= Len(m.fl.work)
        THEN [ m EXCEPT !.fl.offset = @ + p.vadFrameSamples,
                        !.fl.processed = TRUE,
                        !.pc = "vad", !.users[uid].vad = TRUE ]
        ELSE EndOfPass(m)

\* lines 115-165: runs until the next await of the VAD or the end of the buffer
FrameLoop(m) ==
    LET uid == order[m.fl.i]
        p   == _getSegParams
    IN  IF m.fl.work # <<>> /\ m.fl.offset + p.vadFrameSamples <= Len(m.fl.work)
        THEN LET frame == SubSeq(m.fl.work, m.fl.offset + 1,
                                 m.fl.offset + p.vadFrameSamples)
                 m1 == [ m EXCEPT !.fl.offset = @ + p.vadFrameSamples,
                                  !.fl.processed = TRUE ]
             IN  IF EnergyActive(frame, p.thresh)
                 THEN [ m1 EXCEPT !.pc = "vad", !.users[uid].vad = TRUE ]
                 ELSE FrameLoop(Classified(m1, uid, frame, FALSE, FALSE))
        ELSE EndOfPass(m)

\* lines 109-113: the i-th user of the Map's iteration
UserPass(m, i) ==
    LET uid   == order[i]
        state == m.users[uid]
    IN  FrameLoop([ m EXCEPT !.users[uid] = _buildWorkBufferState(state),
                             !.fl = [ i |-> i, work |-> _buildWorkBuffer(state),
                                      offset |-> 0, processed |-> FALSE ] ])

\* variant: the call does not look at the reentrancy flag
flushAll_call_reentrant ==
    IF Len(order) = 0
    THEN [ Machine EXCEPT !.flushing = FALSE ]
    ELSE UserPass([ Machine EXCEPT !.flushing = TRUE ], 1)

\* what a call of flushAll makes of the segmenter, up to its first await or
\* to its end
flushAll_call ==
    IF _flushing
    THEN Machine
    ELSE IF Len(order) = 0
    THEN [ Machine EXCEPT !.flushing = FALSE ]
    ELSE UserPass([ Machine EXCEPT !.flushing = TRUE ], 1)

\* a call of flushAll (the 1 s timer, speaking end, stream cleanup)
flushAll ==
    /\ Install(flushAll_call)
    /\ UNCHANGED <<order, pushed, npush, now, dvars>>
    /\ UNCHANGED <<svars, xvars>>

\* the awaited isVoice of line 129 answers: VOICE or not
VadAnswer ==
    /\ pc = "vad"
    /\ \E voice \in BOOLEAN :
         LET uid   == order[fl.i]
             frame == SubSeq(fl.work, fl.offset - _getSegParams.vadFrameSamples + 1,
                             fl.offset)
         IN  Install(FrameLoop(Classified(Machine, uid, frame, TRUE, voice)))
    /\ UNCHANGED <<order, pushed, npush, now, dvars>>
    /\ UNCHANGED <<svars, xvars>>

\* the awaited isVoice of line 129 rejects: flushAll has no try/finally, so
\* the pass ends there, its locals (the rest of the work buffer) are gone and
\* the statements after the await (lines 132-175) do not run
VadReject ==
    /\ pc = "vad"
    /\ pc' = "idle"
    /\ fl' = NoFlush
    /\ UNCHANGED <<users, sent, gate, _flushing, order, pushed, npush, now, dvars>>
    /\ UNCHANGED <<svars, xvars>>

\* the wall clock, observed at steps of TickMs
TickMs == opts.minSegmentMs + opts.silenceGapMs

Tick ==
    /\ now < 1 + MaxTicks * TickMs
    /\ now' = now + TickMs
    /\ UNCHANGED <<users, order, _flushing, pc, fl, sent, gate, pushed, npush, dvars>>
    /\ UNCHANGED <<svars, xvars>>

Next == Push \/ flushAll \/ VadAnswer \/ Tick

Spec == Init /\ [][Next]_vars

\* the segmenter fed with long pauses too, the wall clock standing still
PauseNext == Push \/ PushPause \/ flushAll \/ VadAnswer

PauseSpec == Init /\ [][PauseNext]_vars

\* the segmenter with a VAD whose calls may fail
FailNext == Push \/ flushAll \/ VadAnswer \/ VadReject

FailSpec == Init /\ [][FailNext]_vars

\* The 1 s flush timer never ceases to fire (line 374): weak fairness of
\* flushAll, written out as "infinitely often disabled or infinitely often
\* taken", with the enabling condition of <<flushAll>>_vars (a call changes
\* the segmenter) as a state predicate.
FlushFair == []<>(flushAll_call = Machine) \/ []<><<flushAll>>_vars

\* one participant speaking, the wall clock running
FlushNext == Speak \/ flushAll \/ VadAnswer \/ Tick

FlushSpec == Init /\ [][FlushNext]_vars /\ FlushFair

\* ==== the claims about the segmenter ======================================
Busy(u) == pc = "vad" /\ order[fl.i] = u

SentOf(u) == SelectSeq(sent, LAMBDA s : s.userId = u)

Consecutive(samples) ==
    \A k \in 1..(Len(samples) - 1) : samples[k + 1][2] = samples[k][2] + 1

\* the i-th frame of the gate's history lies in the emitted pcm of s
InPcm(s, i) ==
    \E j \in 1..Len(s.pcm16) : s.pcm16[j][2] = gate[s.userId][i].at

FramesIn(s) == { i \in 1..Len(gate[s.userId]) : InPcm(s, i) }

\* number of VAD frames that make up silenceGapMs
GapFrames ==
    (_getSegParams.silenceGapMs * TARGET_SR + F * 1000 - 1) \div (F * 1000)

\* C1: for every participant the k-th emitted segment carries index k (from
\* 0), with no gap and no repeat, and the next index to hand out is the
\* number of segments emitted so far.
C1_IndexContiguous ==
    \A u \in Participants :
        LET emitted == SentOf(u)
        IN  /\ \A k \in 1..Len(emitted) : emitted[k].index = k - 1
            /\ u \in Known => users[u].nextIndex = Len(emitted)

C1_Witness ==
    /\ Len(SentOf("a")) >= 2
    /\ SentOf("a")[2].index = 1

\* C2: every emitted segment has duration_ms <= max_segment_ms + vad_frame_ms.
C2_DurationCapped ==
    \A k \in 1..Len(sent) :
        sent[k].durationMs <= opts.maxSegmentMs + opts.vadFrameMs

\* C3: a run of consecutive inactive frames totalling at least silence_gap_ms
\* that is followed by an active frame separates two segments: no emitted
\* segment holds such a run.
C3_GapSplits ==
    \A k \in 1..Len(sent) :
        LET g == gate[sent[k].userId]
        IN  ~ \E j \in 1..(Len(g) - GapFrames + 1) :
                \A i \in j..(j + GapFrames - 1) :
                    /\ ~g[i].act
                    /\ InPcm(sent[k], i)

C5_ActiveContentMin ==
    \A k \in 1..Len(sent) :
        LET g == gate[sent[k].userId]
            active == { i \in FramesIn(sent[k]) : g[i].act }
        IN  Cardinality(active) * F * 1000 >= _getSegParams.minSegmentMs * TARGET_SR

\* C6: every emitted segment has duration_ms >= min_segment_ms.
C6_DurationAtLeastMin ==
    \A k \in 1..Len(sent) : sent[k].durationMs >= opts.minSegmentMs

C6_Witness ==
    \E k \in 1..Len(sent) : sent[k].durationMs = opts.minSegmentMs

\* C7: the pcm of every emitted segment ends with the last sample of a frame
\* the gate classified active, so it holds an active frame and none of the
\* silence buffered after it.
C7_EndsActive ==
    \A k \in 1..Len(sent) :
        LET s == sent[k]
            g == gate[s.userId]
        IN  /\ Len(s.pcm16) > 0
            /\ \E i \in 1..Len(g) :
                 /\ g[i].act
                 /\ s.pcm16[Len(s.pcm16)][2] = g[i].at + g[i].n - 1

\* a segment finalized with silence pending behind its last active frame
C7_Witness ==
    \E k \in 1..Len(sent) : sent[k].sil > 0 /\ sent[k].processed

\* C8: stitch-back keeps the stream order: the frames of the segment in
\* progress followed by the pending silence are one consecutive stretch of
\* the pushed stream, the pending frames are exactly the silence counted,
\* and every emitted pcm is a consecutive stretch too (speech, stitched
\* silence, speech).
C8_StitchKeepsOrder ==
    /\ \A u \in Known :
         LET st == users[u]
         IN  /\ Consecutive(Flatten(st.frames) \o Flatten(st.pendingSilence))
             /\ st.pendingSilenceSamples = FrameLen(st.pendingSilence)
             /\ st.silenceSamples = st.pendingSilenceSamples
             /\ st.totalInSeg = FrameLen(st.frames)
    /\ \A k \in 1..Len(sent) : Consecutive(sent[k].pcm16)

\* an emitted segment with a stitched inactive frame between active ones
C8_Witness ==
    \E k \in 1..Len(sent) :
        \E i \in 2..(Len(gate[sent[k].userId]) - 1) :
            /\ ~gate[sent[k].userId][i].act
            /\ InPcm(sent[k], i - 1)
            /\ InPcm(sent[k], i)
            /\ InPcm(sent[k], i + 1)

\* C9: a segment whose duration has reached max_segment_ms does not survive
\* the pass that observes it, and it is emitted, not dropped: every frame the
\* gate classified active is in the segment in progress or in an emitted pcm.
C9_MaxFinalizes ==
    \A u \in Known :
        /\ ~Busy(u) /\ users[u].inSpeech =>
              users[u].totalInSeg * 1000 < _getSegParams.maxSegmentMs * TARGET_SR
        /\ \A i \in 1..Len(gate[u]) :
              gate[u][i].act =>
                 \/ \E j \in 1..Len(users[u].frames) :
                       users[u].frames[j][1][2] = gate[u][i].at
                 \/ \E k \in 1..Len(sent) :
                       sent[k].userId = u /\ InPcm(sent[k], i)

\* emitted on the length cap with no silence seen
C9_Witness ==
    \E k \in 1..Len(sent) :
        /\ sent[k].sil = 0
        /\ sent[k].processed
        /\ sent[k].durationMs >= opts.maxSegmentMs

\* the samples of a participant not yet handed to the gate
Unclassified(u) ==
    ( IF Busy(u)
      THEN SubSeq(fl.work, fl.offset + 1, Len(fl.work))
      ELSE users[u].carry ) \o Flatten(users[u].inQueue)

\* samples handed to the gate so far (the frame awaiting the VAD included)
ClassifiedCount(u) == Len(gate[u]) * F + (IF Busy(u) THEN F ELSE 0)

\* C10: audio is consumed in capture order exactly once: the k-th frame
\* handed to the gate is the k-th stretch of vad_frame_samples of the
\* pushed stream, what is not yet classified is the rest of the stream in
\* order (carry first), and the emitted segments follow each other in the
\* stream without sharing a sample.
C10_CaptureOrder ==
    \A u \in Known :
        /\ \A i \in 1..Len(gate[u]) :
              /\ gate[u][i].whole
              /\ gate[u][i].n = F
              /\ gate[u][i].at = (i - 1) * F
        /\ LET rest == Unclassified(u)
                done == ClassifiedCount(u)
            IN  /\ Len(rest) = pushed[u] - done
                /\ \A k \in 1..Len(rest) : rest[k][2] = done + k - 1
        /\ LET emitted == SentOf(u)
            IN  \A k \in 1..(Len(emitted) - 1) :
                    emitted[k].pcm16[Len(emitted[k].pcm16)][2] < emitted[k + 1].pcm16[1][2]

\* a flush suspended in the VAD with audio pushed meanwhile and a tail left
C10_Witness ==
    /\ pc = "vad"
    /\ users[order[fl.i]].inQueue # <<>>
    /\ fl.offset < Len(fl.work)
    /\ Len(gate[order[fl.i]]) >= 2

\* ==== the session coordinator and its transport ===========================
\* Text is a sequence of one-character strings; a word is such a sequence too.
\* Time is observed in steps of TimerStep.  A handler of the single-threaded
\* process that does not await is one atomic action.

reconnectDelay == 3000

TimerStep == reconnectDelay \div 2

MaxConns == 2

MaxSegs == 2

\* the segments and text messages a session takes in, together
MaxInputs == 2

sessionInfo == [ guildId |-> "g", asrPrompt |-> <<" ", "a">>, asrContextWords |-> 3 ]

maxContextWords == Max(0, sessionInfo.asrContextWords)

\* Math.max(0, sessionInfo.asrContextWords ?? 40)
ContextCap(given, asrContextWords) == Max(0, IF given THEN asrContextWords ELSE 40)

undefined == "undefined"

\* the characters matched by \p{L}\p{N}
WordChars == {"a", "b"}

\* the characters matched by \s
WhiteSpace == {" ", "\n"}

\* the texts the worker recognizes: "a,  b!", "" and ","
Texts == { <<"a", ",", " ", " ", "b", "!">>, <<>>, <<",">> }

\* the texts members type in the channel: "a,  b!" and "b", newline, quote
Contents == { <<"a", ",", " ", " ", "b", "!">>, <<"b", "\n", "\"">> }

\* what the worker hears in the k-th segment of a participant
TextOf(u, k) ==
    IF k > 0 THEN <<",">>
    ELSE IF u = "a" THEN <<"a", ",", " ", " ", "b", "!">>
    ELSE <<>>

\* the members the platform reports a rename of
Renamed == {"a"}

\* the names the platform knows a member by, before and after a rename
DirectoryName == "Ann"

UpdatedName == "Bea"

\* ---- appendContext, composePromptWithContext -------------------------------
\* text.split(/\s+/)
RECURSIVE SplitWs(_, _, _, _)
SplitWs(text, i, cur, acc) ==
    IF i > Len(text) THEN Append(acc, cur)
    ELSE IF text[i] \in WhiteSpace
    THEN IF i > 1 /\ text[i - 1] \in WhiteSpace
         THEN SplitWs(text, i + 1, cur, acc)
         ELSE SplitWs(text, i + 1, <<>>, Append(acc, cur))
    ELSE SplitWs(text, i + 1, Append(cur, text[i]), acc)

\* t.replace(/^[^\p{L}\p{N}]+|[^\p{L}\p{N}]+$/gu, '')
RECURSIVE StripLeft(_)
StripLeft(t) ==
    IF Len(t) > 0 /\ Head(t) \notin WordChars THEN StripLeft(Tail(t)) ELSE t

RECURSIVE StripRight(_)
StripRight(t) ==
    IF Len(t) > 0 /\ t[Len(t)] \notin WordChars
    THEN StripRight(SubSeq(t, 1, Len(t) - 1))
    ELSE t

Tokens(text) ==
    LET parts    == SplitWs(text, 1, <<>>, <<>>)
        stripped == [ k \in 1..Len(parts) |-> StripRight(StripLeft(parts[k])) ]
    IN  SelectSeq(stripped, LAMBDA t : Len(t) > 0)

TokensOf == [ text \in Texts \cup Contents |-> Tokens(text) ]

appendContext_keepOldest(words, text) ==
    IF Len(text) = 0 THEN words
    ELSE LET all == words \o TokensOf[text]
         IN  SubSeq(all, 1, Min(Len(all), maxContextWords))

appendContext(words, text) ==
    IF Len(text) = 0 THEN words
    ELSE LET tokens == TokensOf[text]
             all    == words \o tokens
         IN  IF Len(tokens) = 0 THEN words
             ELSE IF Len(all) > maxContextWords
             THEN SubSeq(all, Len(all) - maxContextWords + 1, Len(all))
             ELSE all

\* words.join(' ')
RECURSIVE Join(_)
Join(words) ==
    IF Len(words) = 0 THEN <<>>
    ELSE IF Len(words) = 1 THEN words[1]
    ELSE words[1] \o <<" ">> \o Join(Tail(words))

\* s.trim()
RECURSIVE Trim(_)
Trim(s) ==
    IF Len(s) > 0 /\ Head(s) \in WhiteSpace THEN Trim(Tail(s))
    ELSE IF Len(s) > 0 /\ s[Len(s)] \in WhiteSpace
    THEN Trim(SubSeq(s, 1, Len(s) - 1))
    ELSE s

getContextText(words) ==
    IF Len(words) = 0 THEN <<>>
    ELSE LET n == IF maxContextWords = 0 THEN Len(words)
                  ELSE Min(maxContextWords, Len(words))
         IN  Join(SubSeq(words, Len(words) - n + 1, Len(words)))

composePromptWithContext(words) ==
    Join(SelectSeq(<<Trim(sessionInfo.asrPrompt), getContextText(words)>>,
                   LAMBDA s : Len(s) > 0))

\* ---- the log file as text: JSON.stringify, JSON.parse, readline -----------
\* A text is a sequence of symbols: the characters that matter to JSON and to
\* readline ({ } " : , \ newline, digits) and runs of other characters.  A JSON
\* value is [t |-> "string", v |-> symbols], [t |-> "number", v |-> integer]
\* or [t |-> "object", v |-> <<key, value>> pairs in insertion order].

DigitSymbols == <<"0", "1", "2", "3", "4", "5", "6", "7", "8", "9">>

JsString(symbols) == [ t |-> "string", v |-> symbols ]

JsNumber(n) == [ t |-> "number", v |-> n ]

JsObject(members) == [ t |-> "object", v |-> members ]

\* the object literal `out` of handleTranscription and logTextMessage
JsEntry(out) ==
    JsObject(<< <<<<"userId">>, JsString(<<out.userId>>)>>,
                <<<<"displayName">>, JsString(<<out.displayName>>)>>,
                <<<<"startTs">>, JsNumber(out.startTs)>>,
                <<<<"endTs">>, JsNumber(out.endTs)>>,
                <<<<"origin">>, JsString(<<out.origin>>)>>,
                <<<<"text">>, JsString(out.text)>> >>)

RECURSIVE Digits(_)
Digits(n) ==
    IF n < 10 THEN <<DigitSymbols[n + 1]>>
    ELSE Digits(n \div 10) \o <<DigitSymbols[(n % 10) + 1]>>

RECURSIVE Escape(_)
Escape(symbols) ==
    IF Len(symbols) = 0 THEN <<>>
    ELSE LET c == Head(symbols)
         IN  (IF c = "\"" THEN <<"\\", "\"">>
              ELSE IF c = "\\" THEN <<"\\", "\\">>
              ELSE IF c = "\n" THEN <<"\\", "n">>
              ELSE <<c>>) \o Escape(Tail(symbols))

Quote_raw(symbols) == <<"\"">> \o symbols \o <<"\"">>

Quote(symbols) == <<"\"">> \o Escape(symbols) \o <<"\"">>

RECURSIVE JSON_stringify(_)
RECURSIVE StringifyMembers(_)
StringifyMembers(members) ==
    IF Len(members) = 0 THEN <<>>
    ELSE Quote(members[1][1]) \o <<":">> \o JSON_stringify(members[1][2])
         \o (IF Len(members) > 1 THEN <<",">> ELSE <<>>)
         \o StringifyMembers(Tail(members))

JSON_stringify(value) ==
    IF value.t = "string" THEN Quote(value.v)
    ELSE IF value.t = "number" THEN Digits(value.v)
    ELSE <<"{">> \o StringifyMembers(value.v) \o <<"}">>

\* a parse step gives [ok, value, next]: next is the position after the value
ParseFail == [ ok |-> FALSE, value |-> JsNumber(0), next |-> 0 ]

IsDigit(c) == \E d \in 1..10 : DigitSymbols[d] = c

DigitValue(c) == (CHOOSE d \in 1..10 : DigitSymbols[d] = c) - 1

RECURSIVE ParseString(_, _, _)
ParseString(s, i, acc) ==
    IF i > Len(s) THEN ParseFail
    ELSE IF s[i] = "\"" THEN [ ok |-> TRUE, value |-> JsString(acc), next |-> i + 1 ]
    ELSE IF s[i] = "\n" THEN ParseFail
    ELSE IF s[i] = "\\"
    THEN IF i + 1 > Len(s) THEN ParseFail
         ELSE IF s[i + 1] \in {"\"", "\\"}
         THEN ParseString(s, i + 2, Append(acc, s[i + 1]))
         ELSE IF s[i + 1] = "n" THEN ParseString(s, i + 2, Append(acc, "\n"))
         ELSE ParseFail
    ELSE ParseString(s, i + 1, Append(acc, s[i]))

RECURSIVE ParseNumber(_, _, _)
ParseNumber(s, i, acc) ==
    IF i <= Len(s) /\ IsDigit(s[i])
    THEN ParseNumber(s, i + 1, 10 * acc + DigitValue(s[i]))
    ELSE [ ok |-> TRUE, value |-> JsNumber(acc), next |-> i ]

RECURSIVE ParseValue(_, _)
RECURSIVE ParseMembers(_, _, _)
ParseMembers(s, i, acc) ==
    IF i > Len(s) \/ s[i] # "\"" THEN ParseFail
    ELSE LET key == ParseString(s, i + 1, <<>>)
         IN  IF ~key.ok \/ key.next > Len(s) \/ s[key.next] # ":" THEN ParseFail
             ELSE LET val == ParseValue(s, key.next + 1)
                  IN  IF ~val.ok \/ val.next > Len(s) THEN ParseFail
                      ELSE LET all == Append(acc, <<key.value.v, val.value>>)
                           IN  IF s[val.next] = "}"
                               THEN [ ok |-> TRUE, value |-> JsObject(all),
                                      next |-> val.next + 1 ]
                               ELSE IF s[val.next] = ","
                               THEN ParseMembers(s, val.next + 1, all)
                               ELSE ParseFail

ParseValue(s, i) ==
    IF i > Len(s) THEN ParseFail
    ELSE IF s[i] = "\"" THEN ParseString(s, i + 1, <<>>)
    ELSE IF IsDigit(s[i])
    THEN IF s[i] = "0" /\ i < Len(s) /\ IsDigit(s[i + 1]) THEN ParseFail
         ELSE ParseNumber(s, i, 0)
    ELSE IF s[i] = "{"
    THEN IF i < Len(s) /\ s[i + 1] = "}"
         THEN [ ok |-> TRUE, value |-> JsObject(<<>>), next |-> i + 2 ]
         ELSE ParseMembers(s, i + 1, <<>>)
    ELSE ParseFail

\* JSON.parse(s): ok is false where it throws
JSON_parse(s) ==
    LET r == ParseValue(s, 1)
    IN  IF r.ok /\ r.next = Len(s) + 1 THEN r ELSE ParseFail

\* the lines readline yields for a text: the stretches between newlines, and
\* what follows the last newline unless it is empty
Lines(text) ==
    LET at   == SelectSeq([ i \in 1..Len(text) |-> i ], LAMBDA i : text[i] = "\n")
        from == [ k \in 1..(Len(at) + 1) |-> IF k = 1 THEN 1 ELSE at[k - 1] + 1 ]
        to   == [ k \in 1..(Len(at) + 1) |->
                    IF k > Len(at) THEN Len(text) ELSE at[k] - 1 ]
        n    == IF from[Len(at) + 1] > Len(text) THEN Len(at) ELSE Len(at) + 1
    IN  [ k \in 1..n |-> SubSeq(text, from[k], to[k]) ]

\* ---- readLogEntriesStrict --------------------------------------------------
\* the value of a read: ok is false where it throws, line is the line the
\* error names
ReadValue(okay, line, out) == [ done |-> TRUE, ok |-> okay, line |-> line, out |-> out ]

\* the for-await loop over the lines, from line lineNo + 1 on
RECURSIVE ReadLoop_lastMalformed(_, _, _, _, _)
ReadLoop_lastMalformed(lines, lineNo, lastNonEmptyLineNo, malformedLineNo, out) ==
    IF lineNo >= Len(lines)
    THEN IF malformedLineNo # 0 /\ malformedLineNo # lastNonEmptyLineNo
         THEN ReadValue(FALSE, malformedLineNo, <<>>)
         ELSE ReadValue(TRUE, 0, out)
    ELSE LET s == Trim(lines[lineNo + 1])
             obj == JSON_parse(s)
         IN  IF Len(s) = 0
             THEN ReadLoop_lastMalformed(lines, lineNo + 1, lastNonEmptyLineNo,
                                         malformedLineNo, out)
             ELSE IF obj.ok
             THEN ReadLoop_lastMalformed(lines, lineNo + 1, lineNo + 1,
                                         malformedLineNo, Append(out, obj.value))
             ELSE ReadLoop_lastMalformed(lines, lineNo + 1, lineNo + 1,
                                         lineNo + 1, out)

RECURSIVE ReadLoop(_, _, _, _, _)
ReadLoop(lines, lineNo, lastNonEmptyLineNo, malformedLineNo, out) ==
    IF lineNo >= Len(lines)
    THEN IF malformedLineNo # 0 /\ malformedLineNo # lastNonEmptyLineNo
         THEN ReadValue(FALSE, malformedLineNo, <<>>)
         ELSE ReadValue(TRUE, 0, out)
    ELSE LET s == Trim(lines[lineNo + 1])
             obj == JSON_parse(s)
         IN  IF Len(s) = 0
             THEN ReadLoop(lines, lineNo + 1, lastNonEmptyLineNo,
                           malformedLineNo, out)
             ELSE IF obj.ok
             THEN ReadLoop(lines, lineNo + 1, lineNo + 1, malformedLineNo,
                           Append(out, obj.value))
             ELSE ReadLoop(lines, lineNo + 1, lineNo + 1,
                           IF malformedLineNo = 0 THEN lineNo + 1
                           ELSE malformedLineNo, out)

\* variant: a malformed last line is not tolerated either
readLogEntriesStrict_noTolerance(file) ==
    IF ~file.exists THEN ReadValue(TRUE, 0, <<>>)
    ELSE LET lines == Lines(file.text)
             bad   == { i \in 1..Len(lines) :
                          Len(Trim(lines[i])) > 0 /\ ~JSON_parse(Trim(lines[i])).ok }
         IN  IF bad # {}
             THEN ReadValue(FALSE, CHOOSE i \in bad : \A k \in bad : i <= k, <<>>)
             ELSE ReadLoop(lines, 0, 0, 0, <<>>)

\* file is [exists, text]
readLogEntriesStrict(file) ==
    IF ~file.exists THEN ReadValue(TRUE, 0, <<>>)
    ELSE ReadLoop(Lines(file.text), 0, 0, 0, <<>>)

\* the text of a log file holding the given entries: one line for each
\* logStream.write(JSON.stringify(out) + '\n')
RECURSIVE FileText(_)
FileText(entries) ==
    IF Len(entries) = 0 THEN <<>>
    ELSE JSON_stringify(JsEntry(Head(entries))) \o <<"\n">> \o FileText(Tail(entries))

\* ---- UserDirectory ---------------------------------------------------------
getDisplayNameSync_miss(userId, guildId) == undefined

getDisplayNameSync(userId, guildId) ==
    IF guildId = "" THEN undefined
    ELSE IF userId \in DOMAIN displayNames THEN displayNames[userId]
    ELSE undefined

setDisplayName(userId, displayName) ==
    [ u \in DOMAIN displayNames \cup {userId} |->
        IF u = userId THEN displayName ELSE displayNames[u] ]

\* the synchronous part of ensureDisplayName: a lookup is started unless cached
ensureDisplayName(userId, guildId) ==
    IF guildId = "" \/ userId \in DOMAIN displayNames
    THEN lookups
    ELSE lookups \cup {userId}

\* the awaited fetches of ensureDisplayName answer (or fail, which is swallowed)
DirectoryAnswer ==
    \E u \in lookups, found \in BOOLEAN :
        /\ proc = "running"
        /\ lookups' = lookups \ {u}
        /\ displayNames' = IF found THEN setDisplayName(u, DirectoryName)
                           ELSE displayNames
        /\ UNCHANGED <<conns, ws, shouldRun, timers, started, stopped, logStream,
                       logFile, contextWords, proc, nseg, wire, offered, arrivals>>
        /\ UNCHANGED <<vars, xvars>>

\* the 'guildMemberUpdate' listener of the constructor
guildMemberUpdate ==
    \E u \in Renamed :
        /\ proc = "running"
        /\ getDisplayNameSync(u, sessionInfo.guildId) # UpdatedName
        /\ displayNames' = setDisplayName(u, UpdatedName)
        /\ UNCHANGED <<conns, ws, shouldRun, timers, started, stopped, logStream,
                       logFile, contextWords, lookups, proc, nseg, wire, offered,
                       arrivals>>
        /\ UNCHANGED <<vars, xvars>>

\* ---- PythonWsClient --------------------------------------------------------
\* new WebSocket(url); via and waited record how the socket came to be created
NewSocket(via, waited) ==
    [ readyState |-> "CONNECTING", inbox |-> <<>>, jobs |-> <<>>,
      wasOpen |-> FALSE, via |-> via, waited |-> waited ]

NewTimer(delay) == [ delay |-> delay, waited |-> 0 ]

connect(via, waited) ==
    /\ conns' = Append(conns, NewSocket(via, waited))
    /\ ws' = Len(conns) + 1

\* WebSocket.close()
close(sock) ==
    IF sock.readyState \in {"CONNECTING", "OPEN"}
    THEN [ sock EXCEPT !.readyState = "CLOSING" ]
    ELSE sock

\* the 'error' listener: console.error only
errorHandler_reconnect(run, pending) ==
    IF run THEN Append(pending, NewTimer(reconnectDelay)) ELSE pending

errorHandler(run, pending) == pending

\* the 'close' listener
closeHandler_immediate(run, pending) ==
    IF run THEN Append(pending, NewTimer(0)) ELSE pending

closeHandler(run, pending) ==
    IF run THEN Append(pending, NewTimer(reconnectDelay)) ELSE pending

send_always(msg) ==
    /\ offered' = Append(offered, [ id |-> msg.id, index |-> msg.index,
                     open |-> ws # 0 /\ conns[ws].readyState = "OPEN" ])
    /\ IF ws # 0
       THEN /\ wire' = Append(wire, msg)
            /\ conns' = [ conns EXCEPT ![ws].jobs = Append(@, msg) ]
       ELSE UNCHANGED <<wire, conns>>

send(msg) ==
    /\ offered' = Append(offered, [ id |-> msg.id, index |-> msg.index,
                     open |-> ws # 0 /\ conns[ws].readyState = "OPEN" ])
    /\ IF ws # 0 /\ conns[ws].readyState = "OPEN"
       THEN /\ wire' = Append(wire, msg)
            /\ conns' = [ conns EXCEPT ![ws].jobs = Append(@, msg) ]
       ELSE UNCHANGED <<wire, conns>>

\* Session.start(): websocketClient.start(); the bot starts a session once,
\* and never one it has stopped
start ==
    /\ proc = "running"
    /\ ~started
    /\ ~stopped
    /\ started' = TRUE
    /\ connect("start", 0)
    /\ UNCHANGED <<shouldRun, timers, stopped, logStream, logFile, contextWords,
                   displayNames, lookups, proc, nseg, wire, offered, arrivals>>
    /\ UNCHANGED <<vars, xvars>>

\* Session.stop(): websocketClient.stop(), then logStream.end()
stop ==
    /\ proc = "running"
    /\ ~stopped
    /\ stopped' = TRUE
    /\ shouldRun' = FALSE
    /\ conns' = IF ws = 0 THEN conns ELSE [ conns EXCEPT ![ws] = close(@) ]
    /\ logStream' = IF logStream = "open" THEN "ending" ELSE logStream
    /\ UNCHANGED <<ws, timers, started, logFile, contextWords, displayNames,
                   lookups, proc, nseg, wire, offered, arrivals>>
    /\ UNCHANGED <<vars, xvars>>

\* the stream finishes after end(), when everything written has been appended
\* to the file (flags 'a'), and destroys itself (autoDestroy)
LogFinish ==
    /\ proc = "running"
    /\ logStream = "ending"
    /\ logStream' = "destroyed"
    /\ disk' = [ exists |-> TRUE, text |-> disk.text \o FileText(logFile) ]
    /\ UNCHANGED <<conns, ws, shouldRun, timers, started, stopped, logFile,
                   contextWords, displayNames, lookups, proc, nseg, wire, offered,
                   arrivals>>
    /\ UNCHANGED <<vars, tvars, fed, readResult, bvars>>

\* the socket's 'open' event: the listener only logs (no onOpenCb is set)
SocketOpen ==
    \E c \in 1..Len(conns) :
        /\ proc = "running"
        /\ conns[c].readyState = "CONNECTING"
        /\ conns' = [ conns EXCEPT ![c].readyState = "OPEN", ![c].wasOpen = TRUE ]
        /\ UNCHANGED <<ws, shouldRun, timers, started, stopped, logStream, logFile,
                       contextWords, displayNames, lookups, proc, nseg, wire,
                       offered, arrivals>>
        /\ UNCHANGED <<vars, xvars>>

\* the socket's 'close' event, preceded by 'error' when err; a socket that was
\* never open (failed or aborted handshake) always reports the error first
SocketClose ==
    \E c \in 1..Len(conns), err \in BOOLEAN :
        /\ proc = "running"
        /\ conns[c].readyState # "CLOSED"
        /\ ~conns[c].wasOpen => err
        /\ conns' = [ conns EXCEPT ![c].readyState = "CLOSED",
                                   ![c].inbox = <<>>, ![c].jobs = <<>> ]
        /\ timers' = closeHandler(shouldRun,
                        IF err THEN errorHandler(shouldRun, timers) ELSE timers)
        /\ UNCHANGED <<ws, shouldRun, started, stopped, logStream, logFile,
                       contextWords, displayNames, lookups, proc, nseg, wire,
                       offered, arrivals>>
        /\ UNCHANGED <<vars, xvars>>

\* TimerStep of time passes for the pending timers
Elapse ==
    /\ proc = "running"
    /\ \E i \in 1..Len(timers) : timers[i].waited < timers[i].delay
    /\ timers' = [ i \in 1..Len(timers) |->
                     IF timers[i].waited < timers[i].delay
                     THEN [ timers[i] EXCEPT !.waited = @ + TimerStep ]
                     ELSE timers[i] ]
    /\ UNCHANGED <<conns, ws, shouldRun, started, stopped, logStream, logFile,
                   contextWords, displayNames, lookups, proc, nseg, wire, offered,
                   arrivals>>
    /\ UNCHANGED <<vars, xvars>>

\* a due timer runs its callback: () => this.connect()
TimerFire ==
    \E i \in 1..Len(timers) :
        /\ proc = "running"
        /\ timers[i].waited >= timers[i].delay
        /\ Len(conns) < MaxConns
        /\ timers' = [ k \in 1..(Len(timers) - 1) |->
                         IF k < i THEN timers[k] ELSE timers[k + 1] ]
        /\ connect("timer", timers[i].waited)
        /\ UNCHANGED <<shouldRun, started, stopped, logStream, logFile,
                       contextWords, displayNames, lookups, proc, nseg, wire,
                       offered, arrivals>>
        /\ UNCHANGED <<vars, xvars>>

\* ---- Session ---------------------------------------------------------------
\* captureTs of the k-th segment of a participant, in seconds
CaptureTs(u, k) == 2 * k + (IF u = "a" THEN 2 ELSE 1)

\* the segmenter hands a finalized segment to the coordinator
handleAudioSegment ==
    \E u \in Participants :
        /\ proc = "running"
        /\ nseg["a"] + nseg["b"] < MaxSegs
        /\ nseg["a"] + nseg["b"] + Len(received) < MaxInputs
        /\ LET segment  == [ userId |-> u, index |-> nseg[u],
                             captureTs |-> CaptureTs(u, nseg[u]) ]
               audioMsg == [ type |-> "audio.segment", id |-> segment.userId,
                             index |-> segment.index,
                             capture_ts |-> segment.captureTs,
                             prompt |-> composePromptWithContext(contextWords) ]
           IN  /\ lookups' = ensureDisplayName(segment.userId, sessionInfo.guildId)
               /\ send(audioMsg)
        /\ nseg' = [ nseg EXCEPT ![u] = @ + 1 ]
        /\ UNCHANGED <<ws, shouldRun, timers, started, stopped, logStream, logFile,
                       contextWords, displayNames, proc, arrivals>>
        /\ UNCHANGED <<vars, xvars>>

\* logStream.write(JSON.stringify(out) + '\n'); after end() the write fails:
\* the stream's 'error' listener exits the process unless the stream is
\* already destroyed, in which case the record is silently lost
write_twice(out) ==
    IF logStream = "open"
    THEN logFile' = logFile \o <<out, out>> /\ proc' = proc
    ELSE logFile' = logFile /\ proc' = proc

write(out) ==
    IF logStream = "open"
    THEN logFile' = Append(logFile, out) /\ proc' = proc
    ELSE IF logStream = "ending"
    THEN logFile' = logFile /\ proc' = "exit"
    ELSE logFile' = logFile /\ proc' = proc

handleTranscription_skipEmpty(segment) ==
    /\ IF Len(segment.text) > 0
       THEN write([ userId |-> segment.id, displayName |-> segment.id,
                    startTs |-> segment.capture_ts, endTs |-> segment.end_ts,
                    origin |-> "voice", text |-> segment.text ])
       ELSE UNCHANGED <<logFile, proc>>
    /\ contextWords' = appendContext(contextWords, segment.text)

handleTranscription(segment) ==
    LET userId      == segment.id
        display     == getDisplayNameSync(userId, sessionInfo.guildId)
        displayName == IF display # undefined /\ Len(display) > 0
                       THEN display ELSE userId
        out         == [ userId |-> userId, displayName |-> displayName,
                         startTs |-> segment.capture_ts, endTs |-> segment.end_ts,
                         origin |-> "voice", text |-> segment.text ]
    IN  /\ write(out)
        /\ contextWords' = IF Len(segment.text) > 0
                           THEN appendContext(contextWords, segment.text)
                           ELSE contextWords

handleErrorMessage_fatal(err) ==
    /\ proc' = "exit"
    /\ UNCHANGED <<logFile, contextWords>>

handleErrorMessage(err) ==
    UNCHANGED <<logFile, contextWords, proc>>

\* the callback the constructor gives to PythonWsClient
onMessage(msg) ==
    IF msg.type = "transcription" THEN handleTranscription(msg)
    ELSE IF msg.type = "error" THEN handleErrorMessage(msg)
    ELSE UNCHANGED <<logFile, contextWords, proc>>

\* ---- inbound messages ------------------------------------------------------
\* A frame is the text of one inbound message: json says whether it parses,
\* has lists the fields of the parsed object.
Frame(type, has, id, text, capture_ts) ==
    [ json |-> TRUE, type |-> type, has |-> has, id |-> id, text |-> text,
      capture_ts |-> capture_ts, end_ts |-> IF capture_ts = 0 THEN 0 ELSE capture_ts + 1 ]

TranscriptionFields == {"v", "type", "id", "text", "capture_ts", "end_ts"}

ErrorFields == {"v", "type", "code", "message"}

\* inboundSchema.safeParse(parsed).success
inboundSchema(parsed) ==
    /\ {"v", "type"} \subseteq parsed.has
    /\ \/ parsed.type = "transcription" /\ TranscriptionFields \subseteq parsed.has
       \/ parsed.type = "wrapup.response"
            /\ {"outline", "request_id"} \subseteq parsed.has
       \/ parsed.type = "error" /\ ErrorFields \subseteq parsed.has

\* frames the schema rejects: unparsable text, an unknown type, and a
\* transcription without end_ts
BadFrames ==
    { [ Frame("", {}, "", <<>>, 0) EXCEPT !.json = FALSE ],
      Frame("summarize.response", {"v", "type", "outline", "request_id"}, "", <<>>, 0),
      Frame("transcription", TranscriptionFields \ {"end_ts"}, "a", <<>>, 0) }

\* frames reach the listener while the socket is open, and while it is closing
\* until the peer's close frame comes in
Receiving(c) == conns[c].wasOpen /\ conns[c].readyState \in {"OPEN", "CLOSING"}

\* the worker answers the oldest job of a participant on the connection the
\* job came in on: a transcription carrying the job's id, or an error
WorkerReply ==
    \E c \in 1..Len(conns), u \in Participants, ok \in BOOLEAN :
        /\ proc = "running"
        /\ Receiving(c)
        /\ \E k \in 1..Len(conns[c].jobs) : conns[c].jobs[k].id = u
        /\ LET jobs  == conns[c].jobs
               k     == CHOOSE k \in 1..Len(jobs) :
                           /\ jobs[k].id = u
                           /\ \A j \in 1..(k - 1) : jobs[j].id # u
               reply == IF ok
                        THEN Frame("transcription", TranscriptionFields,
                                   jobs[k].id, TextOf(jobs[k].id, jobs[k].index),
                                   jobs[k].capture_ts)
                        ELSE Frame("error", ErrorFields, "", <<>>, 0)
           IN  conns' = [ conns EXCEPT
                            ![c].jobs = [ j \in 1..(Len(jobs) - 1) |->
                                            IF j < k THEN jobs[j] ELSE jobs[j + 1] ],
                            ![c].inbox = Append(@, reply) ]
        /\ UNCHANGED <<ws, shouldRun, timers, started, stopped, logStream, logFile,
                       contextWords, displayNames, lookups, proc, nseg, wire,
                       offered, arrivals>>
        /\ UNCHANGED <<vars, xvars>>

VoiceEntries(file) == SelectSeq(file, LAMBDA e : e.origin = "voice")

\* the 'message' listener of connect() runs on data: JSON.parse and a failed
\* validation throw out of the listener, and nothing catches the exception
messageHandler(c, data) ==
    LET valid == data.json /\ inboundSchema(data)
    IN  /\ IF valid
           THEN onMessage(data)
           ELSE /\ proc' = "uncaught"
                /\ UNCHANGED <<logFile, contextWords>>
        /\ fed' = IF valid /\ data.type = "transcription"
                  THEN fed \o TokensOf[data.text] ELSE fed
        /\ arrivals' = Append(arrivals,
               [ msg |-> data, valid |-> valid, conn |-> c,
                 stream |-> logStream, stopped |-> stopped, pending |-> lookups,
                 voiceLen |-> Len(VoiceEntries(logFile')) ])

\* the socket's 'message' event for the oldest frame in flight
OnMessage ==
    \E c \in 1..Len(conns) :
        /\ proc = "running"
        /\ Receiving(c)
        /\ Len(conns[c].inbox) > 0
        /\ conns' = [ conns EXCEPT ![c].inbox = Tail(@) ]
        /\ messageHandler(c, Head(conns[c].inbox))
        /\ UNCHANGED <<ws, shouldRun, timers, started, stopped, logStream,
                       displayNames, lookups, nseg, wire, offered>>
        /\ UNCHANGED <<vars, yvars>>

\* the socket's 'message' event for a frame the schema rejects
OnBadMessage ==
    \E c \in 1..Len(conns), frame \in BadFrames :
        /\ proc = "running"
        /\ Receiving(c)
        /\ messageHandler(c, frame)
        /\ UNCHANGED <<conns, ws, shouldRun, timers, started, stopped, logStream,
                       displayNames, lookups, nseg, wire, offered>>
        /\ UNCHANGED <<vars, yvars>>

\* the session over its transport; the directory never answers
SessionNext ==
    \/ start \/ stop \/ LogFinish
    \/ SocketOpen \/ SocketClose \/ Elapse \/ TimerFire
    \/ handleAudioSegment
    \/ WorkerReply \/ OnMessage \/ OnBadMessage

SessionSpec == Init /\ [][SessionNext]_<<vars, svars>>

\* the same, with the event loop's guarantee that time passes and that a due
\* timer runs its callback
SessionLive ==
    /\ SessionSpec
    /\ WF_<<vars, svars>>(Elapse)
    /\ WF_<<vars, svars>>(TimerFire)

\* the session with its directory, over a connection that stays up
DirectoryNext ==
    \/ start \/ SocketOpen
    \/ handleAudioSegment \/ DirectoryAnswer \/ guildMemberUpdate
    \/ WorkerReply \/ OnMessage

DirectorySpec == Init /\ [][DirectoryNext]_<<vars, svars>>

\* ==== the claims about the transport and the coordinator ==================

Last(seq) == seq[Len(seq)]

\* the step handles one inbound message; Arrival is its record
Arrived == Len(arrivals') = Len(arrivals) + 1

Arrival == arrivals'[Len(arrivals')]

IsTranscription(a) == a.valid /\ a.msg.type = "transcription"

IsError(a) == a.valid /\ a.msg.type = "error"

\* C11: after stop(), a transcription that still arrives is discarded: it
\* appends no log entry, leaves the rolling context unchanged and causes no
\* error or process exit.
C11_LateTranscriptionDiscarded ==
    [][ (stopped /\ Arrived /\ IsTranscription(Arrival))
          => /\ logFile' = logFile
             /\ contextWords' = contextWords
             /\ proc' = "running" ]_svars

\* C12: once stop() has been called, no new connection is opened, also when
\* the reconnect delay of an earlier close is still pending.
C12_NoConnectAfterStop ==
    [][ stopped => Len(conns') = Len(conns) ]_svars

\* C13: a frame that fails validation is a non-fatal protocol violation: the
\* connection it came in on is closed (to be reopened), nothing reaches the
\* coordinator or the log, and the session keeps running.
C13_BadFrameReconnects ==
    [][ (Arrived /\ ~Arrival.valid)
          => /\ proc' = "running"
             /\ conns'[Arrival.conn].readyState \in {"CLOSING", "CLOSED"}
             /\ logFile' = logFile
             /\ contextWords' = contextWords ]_svars

\* C14: while the transport is started and not stopped, every close of a
\* connection (a failed attempt included) arms one reconnect timer of
\* reconnectDelay; a timer is never cancelled, and when it runs, not before
\* reconnectDelay has passed, it opens a new connection; so whenever the
\* newest connection has closed on a running transport, another connection
\* is eventually attempted (as long as fewer than MaxConns were made).
Closes(c) == conns[c].readyState # "CLOSED" /\ conns'[c].readyState = "CLOSED"

ClosesArmTimers ==
    [][ /\ (shouldRun /\ \E c \in 1..Len(conns) : Closes(c))
            => /\ Len(timers') = Len(timers) + 1
               /\ Last(timers') = [ delay |-> reconnectDelay, waited |-> 0 ]
        /\ Len(timers') < Len(timers)
            => /\ Len(timers') = Len(timers) - 1
               /\ Len(conns') = Len(conns) + 1
               /\ Last(conns').readyState = "CONNECTING"
               /\ Last(conns').waited >= reconnectDelay ]_svars

C14_CloseReconnects ==
    /\ ClosesArmTimers
    /\ \A n \in 1..(MaxConns - 1) :
         (shouldRun /\ Len(conns) = n /\ conns[n].readyState = "CLOSED")
            ~> (Len(conns) > n)

C14_Witness ==
    /\ shouldRun
    /\ \E c \in 2..Len(conns) :
         /\ conns[c].via = "timer"
         /\ conns[c].waited >= reconnectDelay
         /\ ~conns[c - 1].wasOpen
         /\ conns[c - 1].readyState = "CLOSED"

\* C15: at most one connection is connecting, open or closing at any moment;
\* more precisely, non-closed connections and pending reconnect timers
\* together never number more than one.
NonClosed == { c \in 1..Len(conns) : conns[c].readyState # "CLOSED" }

C15_OneConnection == Cardinality(NonClosed) + Len(timers) <= 1

C15_Witness ==
    /\ Len(conns) >= 2
    /\ conns[1].wasOpen
    /\ Cardinality(NonClosed) = 1
    /\ stopped

\* C16: the messages written to a socket are exactly the messages passed to
\* send while the current socket was open, each once and in that order; no
\* segment is on the wire twice and no two log entries stem from one segment.
C16_SendDropsOrTransmitsOnce ==
    LET accepted == SelectSeq(offered, LAMBDA o : o.open)
        voice    == VoiceEntries(logFile)
    IN  /\ Len(wire) = Len(accepted)
        /\ \A i \in 1..Len(wire) :
             wire[i].id = accepted[i].id /\ wire[i].index = accepted[i].index
        /\ \A i, j \in 1..Len(wire) :
             i # j => <<wire[i].id, wire[i].index>> # <<wire[j].id, wire[j].index>>
        /\ \A i, j \in 1..Len(voice) :
             i # j => <<voice[i].userId, voice[i].startTs>>
                        # <<voice[j].userId, voice[j].startTs>>

C16_Witness ==
    /\ Len(offered) = 2
    /\ ~offered[1].open
    /\ offered[2].open
    /\ Len(wire) = 1
    /\ conns[1].wasOpen
    /\ ws = 2

\* C17: handling an inbound error message changes nothing: every connection
\* keeps its state, the log and the rolling context are as before, the process
\* runs on, so that later transcriptions are committed as usual.
C17_ErrorNonFatal ==
    [][ (Arrived /\ IsError(Arrival))
          => /\ proc' = "running"
             /\ logFile' = logFile
             /\ contextWords' = contextWords
             /\ Len(conns') = Len(conns)
             /\ \A c \in 1..Len(conns) : conns'[c].readyState = conns[c].readyState
             /\ <<ws, shouldRun, timers, logStream>>' = <<ws, shouldRun, timers, logStream>>
      ]_svars

C17_Witness ==
    \E i, j \in 1..Len(arrivals) :
        /\ i < j
        /\ IsError(arrivals[i])
        /\ IsTranscription(arrivals[j])
        /\ arrivals[j].conn = arrivals[i].conn
        /\ arrivals[j].voiceLen = 1
        /\ Len(logFile) = 1
        /\ conns[arrivals[i].conn].readyState = "OPEN"

\* C18: every voice entry of the log matches an audio.segment written to a
\* socket earlier with the same participant id; per participant there are
\* never more voice entries than transmitted segments.
C18_NoSpuriousCommit ==
    LET voice == VoiceEntries(logFile)
    IN  /\ \A i \in 1..Len(voice) :
             \E k \in 1..Len(wire) :
                 wire[k].id = voice[i].userId /\ wire[k].capture_ts = voice[i].startTs
        /\ \A u \in Participants :
             Len(SelectSeq(voice, LAMBDA e : e.userId = u))
               <= Len(SelectSeq(wire, LAMBDA m : m.id = u))

C18_Witness ==
    /\ Len(wire) = 2
    /\ Len(logFile) = 1
    /\ wire[1].id = wire[2].id
    /\ logFile[1].startTs = wire[2].capture_ts
    /\ ws = 2

\* C19: while the log stream is open, the voice entries of the log are the
\* arrived transcriptions, one entry each, in arrival order whatever their
\* capture timestamps, each appended by the time its handler returns.
C19_ArrivalOrder ==
    LET voice == VoiceEntries(logFile)
        heard == SelectSeq(arrivals,
                           LAMBDA a : IsTranscription(a) /\ a.stream = "open")
    IN  /\ Len(voice) = Len(heard)
        /\ \A k \in 1..Len(heard) :
             /\ voice[k].userId = heard[k].msg.id
             /\ voice[k].startTs = heard[k].msg.capture_ts
             /\ voice[k].text = heard[k].msg.text
             /\ heard[k].voiceLen = k

C19_Witness ==
    /\ Len(logFile) = 2
    /\ logFile[1].startTs > logFile[2].startTs
    /\ logFile[1].userId # logFile[2].userId

\* C20: a transcription handled while the log stream is open appends exactly
\* the entry {voice, msg.id, cached name or else the id, msg.capture_ts,
\* msg.end_ts, msg.text}, starts and awaits no directory lookup, and appends
\* the words of msg.text to the rolling context, capped at maxContextWords.
LastWords(words, n) ==
    IF Len(words) > n THEN SubSeq(words, Len(words) - n + 1, Len(words)) ELSE words

C20_VoiceEntry ==
    [][ (Arrived /\ IsTranscription(Arrival) /\ logStream = "open")
          => LET m == Arrival.msg
             IN  /\ logFile' = Append(logFile,
                       [ userId |-> m.id,
                         displayName |-> IF m.id \in DOMAIN displayNames
                                         THEN displayNames[m.id] ELSE m.id,
                         startTs |-> m.capture_ts, endTs |-> m.end_ts,
                         origin |-> "voice", text |-> m.text ])
                 /\ lookups' = lookups
                 /\ displayNames' = displayNames
                 /\ contextWords' = LastWords(contextWords \o Tokens(m.text),
                                              maxContextWords) ]_svars

C20_Witness ==
    /\ Len(logFile) = 2
    /\ Len(arrivals) = 2
    /\ arrivals[1].msg.id \in arrivals[1].pending
    /\ logFile[1].displayName = logFile[1].userId
    /\ logFile[2].displayName = DirectoryName
    /\ Len(contextWords) = 2


\* ==== text messages, the log file and its reader ===========================
\* A call of logTextMessage awaits ensureDisplayName: when the name is cached
\* the call runs to its end within the listener's turn, otherwise it is
\* suspended until the directory's fetches answer.

\* message.author.displayName, the name the platform gives with a message
AuthorName(u) == IF u = "a" THEN "ann" ELSE "bob"

\* what a member types
ContentOf(u) ==
    IF u = "a" THEN <<"a", ",", " ", " ", "b", "!">> ELSE <<"b", "\n", "\"">>

\* the n-th message of the channel; createdTimestamp is in milliseconds
Message(u, n) ==
    [ id |-> n, author |-> [ id |-> u, displayName |-> AuthorName(u) ],
      content |-> ContentOf(u), createdTimestamp |-> (n + 5) * 1000 ]

\* logTextMessage from the value of the awaited ensureDisplayName on
logTextMessage_noContext(message, awaited) ==
    LET ts  == message.createdTimestamp \div 1000
        out == [ userId |-> message.author.id,
                 displayName |-> message.author.displayName,
                 startTs |-> ts, endTs |-> ts, origin |-> "text",
                 text |-> message.content ]
    IN  /\ write(out)
        /\ contextWords' = contextWords

logTextMessage_resume(message, awaited) ==
    LET displayName == IF awaited # undefined THEN awaited
                       ELSE message.author.displayName
        ts  == message.createdTimestamp \div 1000
        out == [ userId |-> message.author.id, displayName |-> displayName,
                 startTs |-> ts, endTs |-> ts, origin |-> "text",
                 text |-> message.content ]
    IN  /\ write(out)
        /\ contextWords' = appendContext(contextWords, message.content)

\* what ensureDisplayName resolves to: no path of it returns a value
ensureDisplayName_value(userId, guildId) == undefined

\* a call of logTextMessage up to its end or to its suspension
logTextMessage_call(message) ==
        /\ LET n == Len(received) + 1
               u == message.author.id
           IN  /\ received' = Append(received, message)
               /\ IF sessionInfo.guildId = "" \/ u \in DOMAIN displayNames
                  THEN /\ logTextMessage_resume(message,
                              ensureDisplayName_value(u, sessionInfo.guildId))
                       /\ fed' = fed \o TokensOf[message.content]
                       /\ commits' = Append(commits,
                              [ msg |-> n, stream |-> logStream ])
                       /\ awaiting' = awaiting
                  ELSE /\ awaiting' = awaiting \cup {n}
                       /\ UNCHANGED <<logFile, contextWords, proc, fed, commits>>
        /\ UNCHANGED <<conns, ws, shouldRun, timers, started, stopped, logStream,
                       displayNames, lookups, nseg, wire, offered, arrivals>>
        /\ UNCHANGED <<vars, rvars>>

\* the session is handed a message of the channel
logTextMessage ==
    \E u \in Participants :
        /\ proc = "running"
        /\ ~stopped
        /\ nseg["a"] + nseg["b"] + Len(received) < MaxInputs
        /\ logTextMessage_call(Message(u, Len(received) + 1))
        /\ UNCHANGED bvars

\* the fetches of a suspended call answer (or fail, which is swallowed) and
\* the call runs to its end
LookupDone ==
    \E n \in awaiting, found \in BOOLEAN :
        /\ proc = "running"
        /\ LET message == received[n]
               u       == message.author.id
           IN  /\ displayNames' = IF found THEN setDisplayName(u, DirectoryName)
                                  ELSE displayNames
               /\ logTextMessage_resume(message,
                      ensureDisplayName_value(u, sessionInfo.guildId))
               /\ fed' = fed \o TokensOf[message.content]
               /\ commits' = Append(commits, [ msg |-> n, stream |-> logStream ])
        /\ awaiting' = awaiting \ {n}
        /\ UNCHANGED <<conns, ws, shouldRun, timers, started, stopped, logStream,
                       lookups, nseg, wire, offered, arrivals>>
        /\ UNCHANGED <<vars, rvars, bvars, received>>



\* ==== the claims about text messages and the log ==========================

\* a call of logTextMessage has gone on to write in this step
Committed == Len(commits') > Len(commits)

CommittedMessage == received'[commits'[Len(commits')].msg]

\* C21: a text message handled while the log stream is open appends exactly
\* one entry to the log, with origin text, the author's id, the message's
\* text and start and end both at the message's creation time (in seconds),
\* and the words of the text go into the rolling context.
C21_TextEntry ==
    [][ (Committed /\ logStream = "open")
          => LET m == CommittedMessage
             IN  /\ Len(logFile') = Len(logFile) + 1
                 /\ SubSeq(logFile', 1, Len(logFile)) = logFile
                 /\ LET e == logFile'[Len(logFile')]
                    IN  /\ e.origin = "text"
                        /\ e.userId = m.author.id
                        /\ e.text = m.content
                        /\ e.startTs = e.endTs
                        /\ e.startTs * 1000 = m.createdTimestamp
                 /\ contextWords' = LastWords(contextWords \o Tokens(m.content),
                                              maxContextWords) ]_<<svars, xvars>>

\* a message committed after its lookup answered, its words in the context
C21_Witness ==
    /\ \E k \in 1..Len(commits) : commits[k].stream = "open"
    /\ \E k \in 1..Len(logFile) : logFile[k].origin = "text"
    /\ Len(contextWords) > 0
    /\ DOMAIN displayNames # {}


\* C22: the rolling context never holds more than the configured cap of
\* words (40 when none is configured, 0 for a negative one) and is the most
\* recent cap words of everything fed so far by text messages and
\* transcriptions, in arrival order.
C22_ContextWindow ==
    /\ ContextCap(FALSE, 0) = 40
    /\ \A cap \in -2..3 : ContextCap(TRUE, cap) = (IF cap < 0 THEN 0 ELSE cap)
    /\ maxContextWords = ContextCap(TRUE, sessionInfo.asrContextWords)
    /\ Len(contextWords) <= maxContextWords
    /\ contextWords = LastWords(fed, maxContextWords)

\* a text message and a transcription have fed more words than the cap
C22_Witness ==
    /\ Len(fed) > maxContextWords
    /\ Len(commits) > 0
    /\ \E k \in 1..Len(arrivals) : IsTranscription(arrivals[k])


\* ---- reading a log ---------------------------------------------------------
MaxLines == 3

\* lines a log file may hold: two entries, a blank line, an entry cut short,
\* a stray brace, and a number (which JSON.parse accepts)
EntryLines ==
    { JSON_stringify(JsEntry([ userId |-> "a", displayName |-> "Ann", startTs |-> 2,
                               endTs |-> 3, origin |-> "voice",
                               text |-> ContentOf("a") ])),
      JSON_stringify(JsEntry([ userId |-> "b", displayName |-> "bob", startTs |-> 12,
                               endTs |-> 12, origin |-> "text",
                               text |-> ContentOf("b") ])) }

CutShort == { SubSeq(l, 1, Len(l) - 2) : l \in EntryLines }

LineKinds == EntryLines \cup CutShort \cup { <<" ">>, <<"}">>, <<"7">> }

RECURSIVE JoinLines(_)
JoinLines(lines) ==
    IF Len(lines) = 0 THEN <<>>
    ELSE IF Len(lines) = 1 THEN lines[1]
    ELSE lines[1] \o <<"\n">> \o JoinLines(Tail(lines))

\* the files: up to MaxLines lines, the last one with or without its newline
Files ==
    { NoFile } \cup
    { [ exists |-> TRUE, text |-> JoinLines(ls) \o (IF nl THEN <<"\n">> ELSE <<>>) ] :
        ls \in UNION { [ 1..n -> LineKinds ] : n \in 0..MaxLines }, nl \in BOOLEAN }

\* a process started on whatever file an earlier one left at logFilePath
ReaderInit == Constructed /\ disk \in Files /\ allowedCommanders = <<>>

\* Session.readLogEntries
readLogEntries ==
    /\ proc = "running"
    /\ readResult' = [ file |-> disk, value |-> readLogEntriesStrict(disk) ]
    /\ UNCHANGED <<disk, tvars, fed, bvars>>
    /\ UNCHANGED <<vars, svars>>

ReaderNext == readLogEntries

ReaderSpec == ReaderInit /\ [][ReaderNext]_<<vars, svars, xvars>>

\* the session with its chat channel, over a connection that stays up,
\* and reads of its log
TextNext ==
    \/ start \/ SocketOpen \/ stop \/ LogFinish
    \/ handleAudioSegment \/ WorkerReply \/ OnMessage
    \/ logTextMessage \/ LookupDone
    \/ readLogEntries

TextSpec == Init /\ [][TextNext]_<<vars, svars, xvars>>

\* ---- C23 -------------------------------------------------------------------
\* the lines of a file, counted as the reader counts them
LinesOf(file) == Lines(file.text)

NonBlank(file) == { i \in 1..Len(LinesOf(file)) : Trim(LinesOf(file)[i]) # <<>> }

Malformed(file) == { i \in NonBlank(file) : ~JSON_parse(Trim(LinesOf(file)[i])).ok }

SetMax(S) == CHOOSE x \in S : \A y \in S : y <= x

SetMin(S) == CHOOSE x \in S : \A y \in S : x <= y

\* the records of the well-formed lines, in file order
RecordsOf(file) ==
    LET ls   == LinesOf(file)
        good == SelectSeq([ i \in 1..Len(ls) |-> i ],
                          LAMBDA i : i \in NonBlank(file) \ Malformed(file))
    IN  [ k \in 1..Len(good) |-> JSON_parse(Trim(ls[good[k]])).value ]

\* C23: a read returns the records of the well-formed lines in order when
\* no line is malformed or when the only malformed line is the last non-blank
\* one; otherwise it fails naming the line number of the first malformed
\* line; blank lines are skipped (and counted); the file is left as it was.
C23_ReadBack ==
    [][ readResult' # readResult
          => /\ disk' = disk
             /\ LET bad == Malformed(disk)
                    v   == readResult'.value
                IN  IF bad = {} \/ bad = { SetMax(NonBlank(disk)) }
                    THEN v.ok /\ v.out = RecordsOf(disk)
                    ELSE ~v.ok /\ v.line = SetMin(bad) ]_<<svars, xvars>>

\* read: a file whose only malformed line is its last non-blank one, after
\* a blank line and a record
C23_Witness ==
    /\ readResult.value.done
    /\ readResult.value.ok
    /\ Len(readResult.value.out) > 0
    /\ Cardinality(Malformed(readResult.file)) = 1
    /\ Len(LinesOf(readResult.file)) > Cardinality(NonBlank(readResult.file))


\* C24: round trip.  A read of the log as the flush left it (the stream has
\* finished) returns exactly the records the session committed, field by
\* field and in commit order: none when nothing was committed; and a read
\* that finds no file returns the empty list.
C24_RoundTrip ==
    LET v == readResult.value
    IN  /\ (v.done /\ logStream = "destroyed" /\ readResult.file = disk)
              => /\ v.ok
                 /\ v.out = [ k \in 1..Len(logFile) |-> JsEntry(logFile[k]) ]
        /\ (v.done /\ ~readResult.file.exists) => (v.ok /\ v.out = <<>>)

\* read after the flush: a text entry with a newline and a quote in its
\* text, and a voice entry
C24_Witness ==
    /\ readResult.value.done
    /\ logStream = "destroyed"
    /\ readResult.file = disk
    /\ Len(readResult.value.out) = 2
    /\ \E k \in 1..2 : logFile[k].origin = "text" /\ logFile[k].text = ContentOf("b")
    /\ \E k \in 1..2 : logFile[k].origin = "voice"


\* ==== further claims about the segmenter ==================================

\* samples a participant's unfinished segment holds: its frames and the
\* silence pending behind them
Buffered(u) == FrameLen(users[u].frames) + users[u].pendingSilenceSamples

BufferBound ==
    ((opts.maxSegmentMs + opts.silenceGapMs) * TARGET_SR) \div 1000 + F

\* C25: at the end of every flush pass, no participant's unfinished segment
\* holds more than max_segment_ms + silence_gap_ms of samples plus one frame,
\* pending silence included.
C25_BufferBounded ==
    pc = "idle" => \A u \in Known : Buffered(u) <= BufferBound


\* what a call of flushAll makes of the segmenter when no pass is running
FlushedOnce ==
    IF Len(order) = 0 THEN Machine
    ELSE UserPass([ Machine EXCEPT !.flushing = TRUE ], 1)

\* a flush pass ends in this step: the awaited VAD answers for the last time,
\* or a call of flushAll runs through without awaiting
PassEnds ==
    /\ pc' = "idle"
    /\ pushed' = pushed
    /\ now' = now
    /\ pc = "vad" \/ users' # users \/ sent' # sent

NothingQueued == \A u \in Known : users[u].inQueue = <<>>

\* C26: flushAll is idempotent.  When a pass has ended and nothing is
\* queued, a second flushAll at the same wall-clock time changes no
\* participant's state and emits nothing.
C26_FlushIdempotent ==
    [][ (PassEnds /\ NothingQueued')
          => /\ FlushedOnce'.users = users'
             /\ FlushedOnce'.sent = sent' ]_vars


\* ==== the bot's MessageCreate listener =====================================
MaxCommands == 2

voiceChannelId == "voice"

Channels == {"voice", "other"}

\* who writes in the channels: the members a and b, and another bot
ChatAuthors == Participants \cup {"x"}

\* message.author of a message by u
Author(u) ==
    [ id |-> u, bot |-> (u = "x"),
      tag |-> IF u = "a" THEN "a#1" ELSE IF u = "b" THEN "b#2" ELSE "x#0",
      displayName |-> AuthorName(u) ]

\* the values of cfg.allowedCommanders: none, a member's id, a member's tag
CommanderLists == { <<>>, <<"a">>, <<"b#2">> }

\* "!log", "!wrapup", " !log" and a newline, "!log a"
Commands ==
    { <<"!", "log">>, <<"!", "wrapup">>, <<" ", "!", "log", "\n">>,
      <<"!", "log", " ", "a">> }

\* the log a session of the same name left, if any
EarlierLogs ==
    { NoFile,
      [ exists |-> TRUE,
        text |-> FileText(<<[ userId |-> "a", displayName |-> "Ann", startTs |-> 2,
                              endTs |-> 3, origin |-> "voice",
                              text |-> ContentOf("a") ]>>) ] }

BotInit == Constructed /\ disk \in EarlierLogs /\ allowedCommanders \in CommanderLists

startsWith(content, prefix) == Len(content) > 0 /\ content[1] = prefix

includes(list, x) == \E k \in 1..Len(list) : list[k] = x

\* lines 162-178: whether the command of this author goes on to its handler
Authorized_always(author) == TRUE

Authorized(author) ==
    ~ ( /\ Len(allowedCommanders) > 0
        /\ ~includes(allowedCommanders, author.id)
        /\ ~includes(allowedCommanders, author.tag) )

Reply(message, kind) ==
    [ to |-> message.id, author |-> message.author, kind |-> kind ]

\* Session.handleLogCommand; a read that throws is caught by the listener,
\* which replies with an apology
handleLogCommand(message) ==
    LET value == readLogEntriesStrict(disk)
    IN  /\ readResult' = [ file |-> disk, value |-> value ]
        /\ replies' = Append(replies,
                             Reply(message, IF value.ok THEN "log" ELSE "sorry"))
        /\ UNCHANGED pendingWrapups

\* Session.handleWrapup up to its await: the request is registered and the
\* read of the log begins
handleWrapup(message) ==
    /\ pendingWrapups' = pendingWrapups \cup
           { [ id |-> message.id, author |-> message.author, phase |-> "reading" ] }
    /\ readResult' = [ file |-> disk, value |-> readLogEntriesStrict(disk) ]
    /\ UNCHANGED replies

\* the listener for a message with this author, channel and content
MessageCreate ==
    \E u \in ChatAuthors, channel \in Channels, text \in Commands \cup Contents :
        LET author  == Author(u)
            id      == Len(replies) + Cardinality(pendingWrapups) + Len(received) + 1
            content == Trim(text)
            message == IF text \in Contents THEN Message(u, Len(received) + 1)
                       ELSE [ id |-> id, author |-> author, content |-> text ]
        IN  /\ proc = "running"
            /\ ~author.bot
            /\ ~stopped
            /\ channel = voiceChannelId
            /\ IF ~startsWith(content, "!")
               THEN /\ u \in Participants
                    /\ text = ContentOf(u)
                    /\ nseg["a"] + nseg["b"] + Len(received) < MaxInputs
                    /\ logTextMessage_call(message)
                    /\ UNCHANGED bvars
               ELSE /\ content \in { <<"!", "wrapup">>, <<"!", "log">> }
                    /\ Len(replies) + Cardinality(pendingWrapups) < MaxCommands
                    /\ IF ~Authorized(author)
                       THEN /\ replies' = Append(replies, Reply(message, "denied"))
                            /\ UNCHANGED <<readResult, pendingWrapups>>
                       ELSE IF content = <<"!", "wrapup">>
                       THEN handleWrapup(message)
                       ELSE handleLogCommand(message)
                    /\ UNCHANGED <<vars, svars, tvars, fed, disk, allowedCommanders>>

\* Session.handleWrapup after its await: the request goes to the worker
WrapupSend ==
    \E p \in pendingWrapups :
        /\ proc = "running"
        /\ p.phase = "reading"
        /\ send([ type |-> "wrapup.request", id |-> "", index |-> 0, capture_ts |-> 0,
                  prompt |-> <<>>, request_id |-> p.id ])
        /\ pendingWrapups' = (pendingWrapups \ {p}) \cup { [ p EXCEPT !.phase = "sent" ] }
        /\ UNCHANGED <<ws, shouldRun, timers, started, stopped, logStream, logFile,
                       contextWords, displayNames, lookups, proc, nseg, arrivals>>
        /\ UNCHANGED <<vars, tvars, fed, rvars, allowedCommanders, replies>>

\* the bot in its channel until it is shut down; the directory is not heard
\* from
BotNext == MessageCreate \/ WrapupSend \/ stop

BotSpec == BotInit /\ [][BotNext]_<<vars, svars, xvars>>

\* ---- C27 -------------------------------------------------------------------
Listed(author) ==
    includes(allowedCommanders, author.id) \/ includes(allowedCommanders, author.tag)

\* C27: with a non-empty allowed-commanders list, a !log or !wrapup of an
\* author whose id and tag are both missing from the list is answered with a
\* refusal and reaches no handler (no log read, no wrap-up registered), and
\* the listed authors are never refused; with an empty list nobody is refused.
C27_CommandersOnly ==
    /\ Len(allowedCommanders) > 0
         => /\ \A k \in 1..Len(replies) :
                  (replies[k].kind = "denied") <=> ~Listed(replies[k].author)
            /\ \A p \in pendingWrapups : Listed(p.author)
            /\ readResult.value.done
                 => \/ \E k \in 1..Len(replies) :
                          replies[k].kind # "denied" /\ Listed(replies[k].author)
                    \/ \E p \in pendingWrapups : Listed(p.author)
    /\ Len(allowedCommanders) = 0
         => \A k \in 1..Len(replies) : replies[k].kind # "denied"

\* with a list: one author refused, a listed one (by tag) served
C27_Witness ==
    /\ Len(allowedCommanders) > 0
    /\ \E k \in 1..Len(replies) :
          replies[k].kind = "denied" /\ replies[k].author.id = "a"
    /\ \E p \in pendingWrapups : p.author.tag = "b#2"

\* without a list: commands of both members served
C27_WitnessOpen ==
    /\ Len(allowedCommanders) = 0
    /\ \E k \in 1..Len(replies) : replies[k].kind = "log" /\ replies[k].author.id = "a"
    /\ \E p \in pendingWrapups : p.author.id = "b"


\* C28: overlapping flushes are coalesced.  The flag is set exactly while
\* a pass is suspended in the VAD, so at most one pass is running; a call of
\* flushAll made meanwhile changes nothing; no sample pushed meanwhile is
\* lost (it is in the work buffer, the carry or a queue); and when no pass
\* is running a call that runs to its end leaves every queue empty.
C28_FlushesCoalesced ==
    /\ _flushing <=> (pc = "vad")
    /\ _flushing => flushAll_call = Machine
    /\ \A u \in Known : Len(Unclassified(u)) = pushed[u] - ClassifiedCount(u)
    /\ ~_flushing
         => LET m == flushAll_call
            IN  m.pc = "idle" => \A u \in Known : m.users[u].inQueue = <<>>

\* a pass suspended in the VAD while two buffers pushed meanwhile wait in
\* the queue of its participant
C28_Witness ==
    /\ _flushing
    /\ Len(users[order[fl.i]].inQueue) >= 2


\* ---- the two-stage gate --------------------------------------------------
\* the level test on a frame of n samples whose squares sum to level
AtOrAbove(level, n) ==
    /\ n > 0
    /\ level >= MeanSquareAtDb(opts.vadDbThreshold) * n

\* the frame a suspended pass has handed to the VAD
AwaitedFrame ==
    SubSeq(fl.work, fl.offset - _getSegParams.vadFrameSamples + 1, fl.offset)

GateState ==
    /\ pc = "vad" => AtOrAbove(SumSq(AwaitedFrame), Len(AwaitedFrame))
    /\ \A u \in Known : \A k \in 1..Len(gate[u]) :
         LET r == gate[u][k]
         IN  /\ r.energy <=> AtOrAbove(r.level, r.n)
             /\ r.act => r.energy
    /\ \A u \in Known :
         users[u].vad <=> \/ \E k \in 1..Len(gate[u]) : gate[u][k].energy
                          \/ pc = "vad" /\ order[fl.i] = u

VadKept == \A u \in Known : users[u].vad => users'[u].vad

\* what the VAD answered for the frame of a suspended pass is that frame's
\* classification
AnswerTaken ==
    pc = "vad" =>
        LET u == order[fl.i]
            r == gate'[u][Len(gate[u]) + 1]
        IN  /\ Len(gate'[u]) > Len(gate[u])
            /\ r.at = AwaitedFrame[1][2]
            /\ r.energy

GapDue(u) ==
    /\ u \in Known
    /\ users[u].inSpeech
    /\ users[u].totalInSeg * 1000 >= opts.minSegmentMs * TARGET_SR
    /\ ~Busy(u)
    /\ Len(Unclassified(u)) < F
    /\ (now - users[u].startedTs) * TARGET_SR - users[u].lastActiveSamples * 1000
           >= opts.silenceGapMs * TARGET_SR

\* the segment with index i of participant u went out from a pass that
\* processed nothing
EmittedOnClock(u, i) ==
    \E k \in 1..Len(sent) :
        /\ sent[k].userId = u
        /\ sent[k].index = i
        /\ ~sent[k].processed

\* C30: when the speaker is in speech with at least the minimum duration,
\* no audio of theirs is waiting, and the wall clock has reached the
\* silence gap since the last active sample, then, flush passes going on,
\* the segment is finalized and emitted by a pass on the wall clock, or
\* further audio of theirs arrives.
C30_WallClockFinalizes ==
    GapDue("a")
        ~> /\ "a" \in Known
           /\ \/ /\ ~users["a"].inSpeech
                 /\ EmittedOnClock("a", users["a"].nextIndex - 1)
              \/ Len(Unclassified("a")) >= F

\* a segment emitted by a pass that processed nothing, on the wall clock:
\* the samples seen since its last active sample are short of the gap
C30_Witness ==
    \E k \in 1..Len(sent) :
        /\ ~sent[k].processed
        /\ sent[k].sil * 1000 < opts.silenceGapMs * TARGET_SR
        /\ sent[k].durationMs < opts.maxSegmentMs


\* C31: whenever a flush pass has ended with a participant's trailing
\* silence at or beyond silence_gap_ms, that participant is back in IDLE:
\* not in speech, no accumulated frames, no pending silence.
C31_IdleAfterGap ==
    pc = "idle" =>
        \A u \in Known :
            users[u].silenceSamples * 1000 >= opts.silenceGapMs * TARGET_SR
                => /\ ~users[u].inSpeech
                   /\ users[u].frames = <<>>
                   /\ users[u].pendingSilence = <<>>


\* C32: the reentrancy flag is clear whenever no flush pass is executing,
\* so that a flushAll called then runs (it processes what is queued).
C32_FlagClearedAfterPass ==
    pc = "idle" =>
        /\ ~_flushing
        /\ (\E u \in Known : users[u].inQueue # <<>>) => flushAll_call # Machine


\* ==== the claims about concurrent text messages and log reads =============

\* C33: no call of logTextMessage writes to the log stream after stop() has
\* ended it: every write of a text entry found the stream open, also the
\* write of a call that was suspended on the lookup when stop() ran.
C33_NoTextWriteAfterStop ==
    \A k \in 1..Len(commits) : commits[k].stream = "open"


\* C34: text entries are committed in the order their messages were
\* received: the writes of logTextMessage follow the arrival numbers.
C34_TextArrivalOrder ==
    \A j \in 1..Len(commits) : \A k \in 1..Len(commits) :
        j < k => commits[j].msg < commits[k].msg


\* ---- the log file while the session appends to it ------------------------
\* where the file may end while the stream writes out its records: after a
\* record's opening brace, before its closing brace, before its newline and
\* after it (fs.write may write part of what it is given and go on later)
WritePoints(entries) ==
    UNION { LET to   == Len(FileText(SubSeq(entries, 1, i)))
                from == Len(FileText(SubSeq(entries, 1, i - 1)))
            IN  { from + 1, to - 2, to - 1, to } : i \in 1..Len(entries) }

\* the open stream writes out more of what was handed to it; the file is
\* the session's own (it did not exist before)
Drain ==
    /\ proc = "running"
    /\ logStream = "open"
    /\ \E n \in WritePoints(logFile) :
         /\ n > Len(disk.text)
         /\ disk' = [ exists |-> TRUE, text |-> SubSeq(FileText(logFile), 1, n) ]
    /\ UNCHANGED <<tvars, fed, readResult, bvars>>
    /\ UNCHANGED <<vars, svars>>

\* a live session: text messages are logged and the log is read while the
\* stream writes
LiveLogNext == logTextMessage \/ LookupDone \/ Drain \/ readLogEntries

LiveLogSpec == Init /\ [][LiveLogNext]_<<vars, svars, xvars>>

\* the committed records whose line, up to its newline, is in the file
CompleteOnDisk ==
    { i \in 1..Len(logFile) :
        Len(FileText(SubSeq(logFile, 1, i))) - 1 <= Len(disk.text) }

IndexOf(u) == CHOOSE i \in 1..Len(order) : order[i] = u

\* participant u's part of the segmenter: state, gate history, segments
PartOf(u) == <<users[u], gate[u], SentOf(u)>>

\* the participants a flush step works on: from the one the pass stands at
\* (the first, for a new pass) to the one it is suspended at (the last, when
\* it ends)
StepFrom == IF pc = "vad" THEN fl.i ELSE 1

StepTo == IF pc' = "vad" THEN fl'.i ELSE Len(order)

\* a step leaves alone every participant it is not about: a push, all but
\* the one pushed for; a flush step, all but those it works on
OthersUntouched ==
    \A u \in Known :
        \/ PartOf(u)' = PartOf(u)
        \/ pushed'[u] # pushed[u]
        \/ /\ pushed' = pushed
           /\ StepFrom <= IndexOf(u)
           /\ IndexOf(u) <= StepTo

\* a push changes nothing of the participant but the queue
PushOnlyQueues ==
    \A u \in Known :
        pushed'[u] # pushed[u] =>
            /\ users'[u] = [ users[u] EXCEPT !.inQueue = users'[u].inQueue ]
            /\ gate'[u] = gate[u]
            /\ SentOf(u)' = SentOf(u)

\* the second participant only ever pushes the loud buffer: the sample with
\* tag t of their stream
LoudStream(t) == MonoTgt["loud"][(t % Len(MonoTgt["loud"])) + 1]

\* the samples the segmenter holds for participant u
Held(u) ==
    Flatten(users[u].frames) \o Flatten(users[u].pendingSilence)
        \o (IF Busy(u) THEN fl.work ELSE <<>>)
        \o users[u].carry \o Flatten(users[u].inQueue)

\* every sample of a segment lies in its participant's stream; for the
\* participant whose stream is known, every sample held or emitted for them
\* is the sample of their own stream at that position, and every frame the
\* gate saw for them was loud, as all their frames are
OwnSamples ==
    /\ \A k \in 1..Len(sent) :
         /\ \A j \in 1..Len(sent[k].pcm16) : sent[k].pcm16[j][2] < pushed[sent[k].userId]
         /\ sent[k].userId = "b" =>
              \A j \in 1..Len(sent[k].pcm16) :
                  sent[k].pcm16[j][1] = LoudStream(sent[k].pcm16[j][2])
    /\ "b" \in Known =>
         /\ \A j \in 1..Len(Held("b")) : Held("b")[j][1] = LoudStream(Held("b")[j][2])
         /\ \A i \in 1..Len(gate["b"]) : gate["b"][i].energy

\* C36: participants are isolated: a push for one and a flush step working
\* on one leave every other participant's queue, carry, speech state,
\* pending silence, next index, gate history and segments as they were, and
\* a segment holds only samples of its own participant's stream.
C36_ParticipantsIsolated == []OwnSamples /\ [][OthersUntouched /\ PushOnlyQueues]_vars

\* the first participant has had a segment emitted and silent frames
\* classified, the second is in speech with frames of their own
C36_Witness ==
    /\ \E k \in 1..Len(sent) : sent[k].userId = "a"
    /\ \E i \in 1..Len(gate["a"]) : gate["a"][i].level = 0
    /\ "b" \in Known
    /\ users["b"].inSpeech
    /\ Len(users["b"].frames) >= 2

\* C37: between frame-processing steps, for every participant,
\* lastActiveSamples equals totalInSeg and totalInSeg is the length of the
\* accumulated frames (the pending silence is in neither), so the trim of
\* a finalization at that point keeps every accumulated sample.
C37_MarkIsTotal ==
    \A u \in Known :
        LET state == users[u]
            keepSamples == Max(0, Min(state.lastActiveSamples, state.totalInSeg))
        IN  /\ state.lastActiveSamples = state.totalInSeg
            /\ state.totalInSeg = FrameLen(state.frames)
            /\ state.pendingSilenceSamples = FrameLen(state.pendingSilence)
            /\ concatInt16Trimmed(state.frames, keepSamples) = Flatten(state.frames)

\* a segment in progress that holds stitched silence between active frames
\* and has silence pending behind it
C37_Witness ==
    \E u \in Known :
        /\ users[u].inSpeech
        /\ users[u].pendingSilenceSamples > 0
        /\ \E i \in 1..Len(gate[u]) :
             /\ ~gate[u][i].act
             /\ \E j \in 1..Len(users[u].frames) :
                  users[u].frames[j][1][2] = gate[u][i].at


\* C38: every frame handed to the gate, the one a suspended pass has handed
\* to the VAD included, is a stretch of exactly vad_frame_samples =
\* max(1, round(16000 * vad_frame_ms / 1000)) consecutive samples of the
\* 16 kHz stream, whatever the sizes of the buffers pushed.
C38_FrameLength ==
    LET n == Max(1, Round(16000 * opts.vadFrameMs, 1000))
    IN  /\ TARGET_SR = 16000
        /\ \A u \in Known : \A i \in 1..Len(gate[u]) :
             /\ gate[u][i].n = n
             /\ gate[u][i].whole
        /\ pc = "vad" =>
             /\ fl.offset >= n
             /\ fl.offset % n = 0
             /\ fl.offset <= Len(fl.work)

\* frames were cut from buffers of one and a half frames: three frames
\* classified and half a frame carried over
C38_Witness ==
    \E u \in Known :
        /\ pc = "idle"
        /\ Len(gate[u]) >= 3
        /\ Len(users[u].carry) > 0
        /\ Len(users[u].carry) < F


\* ---- attachVoiceReceiver: one decoder per speaking participant ------------
\* decoders the receiver may create, and buffers they may hand over
MaxDecoders == 3
MaxData == 1

\* the state of a subscription made by the speaking-start handler: the opus
\* stream's phase, the decoder's 'data' listener, the decoder destroyed or
\* not, and (history) the number of times its cleanup has run
NewDecoder(userId) ==
    [ user |-> userId, listening |-> TRUE, destroyed |-> FALSE,
      stream |-> "open", cleanups |-> 0 ]

\* Map.set and Map.delete
MapSet(map, key, val) ==
    [ k \in DOMAIN map \cup {key} |-> IF k = key THEN val ELSE map[k] ]

MapDelete(map, key) == [ k \in DOMAIN map \ {key} |-> map[k] ]

\* an opus stream has emitted 'end' or 'error' and its 'close', which Node
\* schedules with process.nextTick in the same turn, has not run yet: no
\* event that comes from I/O is handled before it
ClosePending == \E d \in 1..Len(decoders) : decoders[d].stream = "ended"

\* variant: every speaking start subscribes
OnSpeakingStart_unguarded(userId) ==
    /\ decoders' = Append(decoders, NewDecoder(userId))
    /\ activeDecoders' = MapSet(activeDecoders, userId, Len(decoders) + 1)

\* speaking.on('start', ...)
OnSpeakingStart(userId) ==
    IF userId \in DOMAIN activeDecoders
    THEN UNCHANGED dvars
    ELSE /\ decoders' = Append(decoders, NewDecoder(userId))
         /\ activeDecoders' = MapSet(activeDecoders, userId, Len(decoders) + 1)

SpeakingStart ==
    \E userId \in Participants :
        /\ ~ClosePending
        /\ Len(decoders) < MaxDecoders
        /\ OnSpeakingStart(userId)
        /\ UNCHANGED <<users, order, _flushing, pc, fl, sent, gate, pushed, npush, now>>
        /\ UNCHANGED <<svars, xvars>>

\* decoder.on('data', ...): runs while the listener is attached
DecoderData ==
    \E d \in 1..Len(decoders) :
        \E kind \in PushKindsOf[decoders[d].user] :
            /\ decoders[d].listening
            /\ ~ClosePending
            /\ npush["a"] + npush["b"] < MaxData
            /\ pushStereo48(decoders[d].user, kind)
            /\ UNCHANGED <<svars, xvars>>

\* cleanup of decoder d, the stream going to the given phase
cleanup(d, phase) ==
    /\ decoders' = [ decoders EXCEPT ![d] =
                       [ @ EXCEPT !.listening = FALSE, !.destroyed = TRUE,
                                  !.cleanups = @ + 1, !.stream = phase ] ]
    /\ activeDecoders' = MapDelete(activeDecoders, decoders[d].user)
    /\ Install(flushAll_call)
    /\ UNCHANGED <<order, pushed, npush, now>>
    /\ UNCHANGED <<svars, xvars>>

\* the opus stream ends (250 ms of inactivity) or fails: 'end' or 'error'
StreamEnd ==
    \E d \in 1..Len(decoders) :
        /\ decoders[d].stream = "open"
        /\ ~ClosePending
        /\ cleanup(d, "ended")

\* the 'close' that follows 'end' or 'error'
StreamClose ==
    \E d \in 1..Len(decoders) :
        /\ decoders[d].stream = "ended"
        /\ cleanup(d, "closed")

\* the opus stream is destroyed without having ended: 'close' alone
StreamDestroy ==
    \E d \in 1..Len(decoders) :
        /\ decoders[d].stream = "open"
        /\ ~ClosePending
        /\ cleanup(d, "closed")

ReceiverNext ==
    \/ SpeakingStart
    \/ DecoderData
    \/ StreamEnd
    \/ StreamClose
    \/ StreamDestroy
    \/ flushAll
    \/ VadAnswer

ReceiverSpec == Init /\ [][ReceiverNext]_vars

\* ---- claims about the capture receiver's decoders ------------------------

\* the decoders of participant u that still push or still run
Active(u) ==
    { d \in 1..Len(decoders) :
        decoders[d].user = u /\ (decoders[d].listening \/ ~decoders[d].destroyed) }

DecoderMap ==
    /\ \A u \in Participants :
         /\ Cardinality(Active(u)) <= 1
         /\ \A d \in Active(u) : u \in DOMAIN activeDecoders /\ activeDecoders[u] = d
    /\ \A u \in DOMAIN activeDecoders : activeDecoders[u] \in Active(u)
    /\ \A d \in 1..Len(decoders) :
         decoders[d].cleanups > 0 =>
             /\ ~decoders[d].listening
             /\ decoders[d].destroyed

\* a step that creates a decoder creates it for a participant without one
SubscribedOnce ==
    Len(decoders') > Len(decoders) =>
        decoders'[Len(decoders')].user \notin DOMAIN activeDecoders

\* a step in which the cleanup of a decoder runs
CleanupRuns(d) == decoders'[d].cleanups > decoders[d].cleanups

CleanedUp ==
    \A d \in 1..Len(decoders) :
        CleanupRuns(d) =>
            /\ decoders[d].user \notin DOMAIN activeDecoders'
            /\ Machine' = flushAll_call
            /\ decoders[d].cleanups > 0 =>
                   /\ activeDecoders' = activeDecoders
                   /\ decoders'[d].listening = decoders[d].listening
                   /\ decoders'[d].destroyed = decoders[d].destroyed
                   /\ \A e \in 1..Len(decoders) : e # d => decoders'[e] = decoders[e]

\* a step that queues audio of a participant is made by that participant's
\* decoder in the map, whose cleanup has not run
PushedByActive ==
    \A u \in Participants :
        pushed'[u] > pushed[u] =>
            /\ u \in DOMAIN activeDecoders
            /\ decoders[activeDecoders[u]].cleanups = 0
            /\ decoders[activeDecoders[u]].listening

\* C39: the capture receiver keeps at most one active decoder per
\* participant; a speaking start for a participant that has a decoder
\* subscribes nothing; the stream's cleanup removes the decoder from the map
\* and calls flushAll, a second run of it changes nothing of the decoders;
\* and no audio is queued by a decoder whose cleanup has run
C39_OneDecoderPerParticipant ==
    []DecoderMap /\ [][SubscribedOnce /\ CleanedUp /\ PushedByActive]_vars

\* the first participant's decoder has pushed, ended and closed, the
\* participant has a second decoder, and the other participant has one too
C39_Witness ==
    /\ Len(decoders) = 3
    /\ decoders[1].user = "a" /\ decoders[1].cleanups = 2
    /\ pushed["a"] > 0
    /\ DOMAIN activeDecoders = {"a", "b"}
    /\ activeDecoders["a"] > 1


\* ---- wrap-up responses ----------------------------------------------------
\* wrap-up replies the bot may post
MaxResponses == 2

\* pendingWrapups.values().next().value: a Map iterates in insertion order,
\* and message ids grow with time
FirstPending == CHOOSE p \in pendingWrapups : \A q \in pendingWrapups : p.id <= q.id

\* the request_id of a wrapup.response: that of a request that went out
\* (answered before or not), or 0 for the empty string
ResponseIds ==
    { wire[k].request_id :
        k \in { j \in 1..Len(wire) : wire[j].type = "wrapup.request" } } \cup {0}

\* Session.handleWrapupResponse, the outline file written and the reply posted
\* (a failure of either is caught and logged at line 250)
handleWrapupResponse(response) ==
    LET byId    == IF response.request_id # 0
                   THEN { p \in pendingWrapups : p.id = response.request_id }
                   ELSE {}
        found   == byId # {}
        message == IF found THEN CHOOSE p \in byId : TRUE ELSE FirstPending
    IN  /\ pendingWrapups' = IF found THEN pendingWrapups \ byId ELSE pendingWrapups
        /\ replies' =
             IF found \/ pendingWrapups # {}
             THEN Append(replies,
                         [ to |-> message.id, author |-> message.author,
                           kind |-> "wrapup", request_id |-> response.request_id ])
             ELSE replies

\* the socket's 'message' event for a wrapup.response frame: it passes the
\* schema (request_id is a string) and onMessage hands it over
WrapupResponse ==
    \E c \in 1..Len(conns), request_id \in ResponseIds :
        /\ proc = "running"
        /\ Receiving(c)
        /\ Len(SelectSeq(replies, LAMBDA r : r.kind = "wrapup")) < MaxResponses
        /\ handleWrapupResponse([ type |-> "wrapup.response", request_id |-> request_id ])
        /\ UNCHANGED <<vars, svars, tvars, rvars, fed, allowedCommanders>>

\* the bot with its worker connected, asked for wrap-ups
WrapupNext == start \/ SocketOpen \/ MessageCreate \/ WrapupSend \/ WrapupResponse

WrapupSpec == BotInit /\ [][WrapupNext]_<<vars, svars, xvars>>

\* ---- claims about wrap-up responses --------------------------------------

WrapupReplies == { k \in 1..Len(replies) : replies[k].kind = "wrapup" }

\* C40: every wrapup.response is delivered to the chat message whose id is
\* its request_id, no wrap-up request is answered twice, and an answered
\* request is no longer in the pending map
C40_WrapupCorrelated ==
    /\ \A k \in WrapupReplies : replies[k].to = replies[k].request_id
    /\ \A j, k \in WrapupReplies : replies[j].to = replies[k].to => j = k
    /\ \A k \in WrapupReplies : \A p \in pendingWrapups : p.id # replies[k].to

====
